---------------------------- MODULE Spec2Model ----------------------------
(***************************************************************************)
(* The field-addressable event model of the runtime security monitor:      *)
(* Model.GetIterator / GetEventTypes / GetEvaluator and the Event accessor *)
(* contract GetFields / GetFieldValue / GetFieldEventType / GetFieldType / *)
(* SetFieldValue of pkg/security/model/accessors.go.                       *)
(*                                                                         *)
(* The generated switch statements are kept as tables, one record per      *)
(* case in source order; the operators below interpret a case the way the  *)
(* generated body of that case executes.                                   *)
(***************************************************************************)
EXTENDS Integers, Sequences, FiniteSets, TLC

(***************************************************************************)
(* State.                                                                  *)
(*   event   the Event                                                     *)
(*   origin  how event was constructed: new, or captured with a chain      *)
(*   prev    the Event as it was before the last call                      *)
(*   last    the last call: operation, arguments and what it returned      *)
(*   nsets   SetFieldValue calls made on event                             *)
(*   hist    the values of the SetFieldValue calls that returned nil, in   *)
(*           call order                                                    *)
(*   pass    the quantified evaluation pass in progress: the field, the    *)
(*           register id, the evaluator, the iterator instance, the        *)
(*           pointer it yielded last and all it yielded so far             *)
(*   regs    ctx.Registers: register id -> element pointer                 *)
(*   out     the results of the evaluator in this pass, in order           *)
(*   threads the threads that share the Model: thread -> what it asked of  *)
(*           the Model and what it was given                               *)
(*   instances  iterator instances over event: instance -> its iterator,   *)
(*           its position and what it yielded                              *)
(*   listed  what the GetFields calls on event returned, in call order     *)
(***************************************************************************)
VARIABLES event, origin, prev, last, nsets, hist, pass, regs, out, threads,
          instances, listed

vars ==
  <<event, origin, prev, last, nsets, hist, pass, regs, out, threads, instances,
    listed>>

(* a GetEventTypes that leaves out "open" *)
GetEventTypesWithoutOpen ==
  << "capset",
     "chmod",
     "chown",
     "exec",
     "link",
     "mkdir",
     "removexattr",
     "rename",
     "rmdir",
     "setgid",
     "setuid",
     "setxattr",
     "unlink",
     "utimes" >>

(* Model.GetEventTypes: the returned slice, in order *)
GetEventTypes ==
  << "capset",
     "chmod",
     "chown",
     "exec",
     "link",
     "mkdir",
     "open",
     "removexattr",
     "rename",
     "rmdir",
     "setgid",
     "setuid",
     "setxattr",
     "unlink",
     "utimes" >>

(* Model.GetEvaluator: one record per case of the switch, in source order.
   variant: the eval.*Evaluator built; reg: EvalFnc reads ctx.Registers[regID];
   obj: what the handle is cast to; attr: the selector read; int: int(...) applied *)
GetEvaluatorCases ==
  << [case |-> "capset.cap_effective", variant |-> "IntEvaluator", reg |-> FALSE, obj |-> "*Event", attr |-> "Capset.CapEffective", int |-> TRUE, weight |-> "FunctionWeight"],
     [case |-> "capset.cap_permitted", variant |-> "IntEvaluator", reg |-> FALSE, obj |-> "*Event", attr |-> "Capset.CapPermitted", int |-> TRUE, weight |-> "FunctionWeight"],
     [case |-> "chmod.file.container_path", variant |-> "StringEvaluator", reg |-> FALSE, obj |-> "*Event", attr |-> "Chmod.File.ContainerPath", int |-> FALSE, weight |-> "HandlerWeight"],
     [case |-> "chmod.file.destination.mode", variant |-> "IntEvaluator", reg |-> FALSE, obj |-> "*Event", attr |-> "Chmod.Mode", int |-> TRUE, weight |-> "FunctionWeight"],
     [case |-> "chmod.file.gid", variant |-> "IntEvaluator", reg |-> FALSE, obj |-> "*Event", attr |-> "Chmod.File.FileFields.GID", int |-> TRUE, weight |-> "FunctionWeight"],
     [case |-> "chmod.file.group", variant |-> "StringEvaluator", reg |-> FALSE, obj |-> "*Event", attr |-> "Chmod.File.FileFields.Group", int |-> FALSE, weight |-> "HandlerWeight"],
     [case |-> "chmod.file.inode", variant |-> "IntEvaluator", reg |-> FALSE, obj |-> "*Event", attr |-> "Chmod.File.FileFields.Inode", int |-> TRUE, weight |-> "FunctionWeight"],
     [case |-> "chmod.file.mode", variant |-> "IntEvaluator", reg |-> FALSE, obj |-> "*Event", attr |-> "Chmod.File.FileFields.Mode", int |-> TRUE, weight |-> "FunctionWeight"],
     [case |-> "chmod.file.mount_id", variant |-> "IntEvaluator", reg |-> FALSE, obj |-> "*Event", attr |-> "Chmod.File.FileFields.MountID", int |-> TRUE, weight |-> "FunctionWeight"],
     [case |-> "chmod.file.name", variant |-> "StringEvaluator", reg |-> FALSE, obj |-> "*Event", attr |-> "Chmod.File.BasenameStr", int |-> FALSE, weight |-> "HandlerWeight"],
     [case |-> "chmod.file.overlay_numlower", variant |-> "IntEvaluator", reg |-> FALSE, obj |-> "*Event", attr |-> "Chmod.File.FileFields.OverlayNumLower", int |-> TRUE, weight |-> "FunctionWeight"],
     [case |-> "chmod.file.path", variant |-> "StringEvaluator", reg |-> FALSE, obj |-> "*Event", attr |-> "Chmod.File.PathnameStr", int |-> FALSE, weight |-> "HandlerWeight"],
     [case |-> "chmod.file.uid", variant |-> "IntEvaluator", reg |-> FALSE, obj |-> "*Event", attr |-> "Chmod.File.FileFields.UID", int |-> TRUE, weight |-> "FunctionWeight"],
     [case |-> "chmod.file.user", variant |-> "StringEvaluator", reg |-> FALSE, obj |-> "*Event", attr |-> "Chmod.File.FileFields.User", int |-> FALSE, weight |-> "HandlerWeight"],
     [case |-> "chmod.retval", variant |-> "IntEvaluator", reg |-> FALSE, obj |-> "*Event", attr |-> "Chmod.SyscallEvent.Retval", int |-> TRUE, weight |-> "FunctionWeight"],
     [case |-> "chown.file.container_path", variant |-> "StringEvaluator", reg |-> FALSE, obj |-> "*Event", attr |-> "Chown.File.ContainerPath", int |-> FALSE, weight |-> "HandlerWeight"],
     [case |-> "chown.file.destination.gid", variant |-> "IntEvaluator", reg |-> FALSE, obj |-> "*Event", attr |-> "Chown.GID", int |-> TRUE, weight |-> "FunctionWeight"],
     [case |-> "chown.file.destination.group", variant |-> "StringEvaluator", reg |-> FALSE, obj |-> "*Event", attr |-> "Chown.Group", int |-> FALSE, weight |-> "HandlerWeight"],
     [case |-> "chown.file.destination.uid", variant |-> "IntEvaluator", reg |-> FALSE, obj |-> "*Event", attr |-> "Chown.UID", int |-> TRUE, weight |-> "FunctionWeight"],
     [case |-> "chown.file.destination.user", variant |-> "StringEvaluator", reg |-> FALSE, obj |-> "*Event", attr |-> "Chown.User", int |-> FALSE, weight |-> "HandlerWeight"],
     [case |-> "chown.file.gid", variant |-> "IntEvaluator", reg |-> FALSE, obj |-> "*Event", attr |-> "Chown.File.FileFields.GID", int |-> TRUE, weight |-> "FunctionWeight"],
     [case |-> "chown.file.group", variant |-> "StringEvaluator", reg |-> FALSE, obj |-> "*Event", attr |-> "Chown.File.FileFields.Group", int |-> FALSE, weight |-> "HandlerWeight"],
     [case |-> "chown.file.inode", variant |-> "IntEvaluator", reg |-> FALSE, obj |-> "*Event", attr |-> "Chown.File.FileFields.Inode", int |-> TRUE, weight |-> "FunctionWeight"],
     [case |-> "chown.file.mode", variant |-> "IntEvaluator", reg |-> FALSE, obj |-> "*Event", attr |-> "Chown.File.FileFields.Mode", int |-> TRUE, weight |-> "FunctionWeight"],
     [case |-> "chown.file.mount_id", variant |-> "IntEvaluator", reg |-> FALSE, obj |-> "*Event", attr |-> "Chown.File.FileFields.MountID", int |-> TRUE, weight |-> "FunctionWeight"],
     [case |-> "chown.file.name", variant |-> "StringEvaluator", reg |-> FALSE, obj |-> "*Event", attr |-> "Chown.File.BasenameStr", int |-> FALSE, weight |-> "HandlerWeight"],
     [case |-> "chown.file.overlay_numlower", variant |-> "IntEvaluator", reg |-> FALSE, obj |-> "*Event", attr |-> "Chown.File.FileFields.OverlayNumLower", int |-> TRUE, weight |-> "FunctionWeight"],
     [case |-> "chown.file.path", variant |-> "StringEvaluator", reg |-> FALSE, obj |-> "*Event", attr |-> "Chown.File.PathnameStr", int |-> FALSE, weight |-> "HandlerWeight"],
     [case |-> "chown.file.uid", variant |-> "IntEvaluator", reg |-> FALSE, obj |-> "*Event", attr |-> "Chown.File.FileFields.UID", int |-> TRUE, weight |-> "FunctionWeight"],
     [case |-> "chown.file.user", variant |-> "StringEvaluator", reg |-> FALSE, obj |-> "*Event", attr |-> "Chown.File.FileFields.User", int |-> FALSE, weight |-> "HandlerWeight"],
     [case |-> "chown.retval", variant |-> "IntEvaluator", reg |-> FALSE, obj |-> "*Event", attr |-> "Chown.SyscallEvent.Retval", int |-> TRUE, weight |-> "FunctionWeight"],
     [case |-> "container.id", variant |-> "StringEvaluator", reg |-> FALSE, obj |-> "*Event", attr |-> "ContainerContext.ID", int |-> FALSE, weight |-> "HandlerWeight"],
     [case |-> "exec.args", variant |-> "StringEvaluator", reg |-> TRUE, obj |-> "*string", attr |-> "", int |-> FALSE, weight |-> "IteratorWeight"],
     [case |-> "exec.args_truncated", variant |-> "BoolEvaluator", reg |-> FALSE, obj |-> "*Event", attr |-> "Exec.ArgsTruncated", int |-> FALSE, weight |-> "FunctionWeight"],
     [case |-> "exec.cap_effective", variant |-> "IntEvaluator", reg |-> FALSE, obj |-> "*Event", attr |-> "Exec.Process.Credentials.CapEffective", int |-> TRUE, weight |-> "HandlerWeight"],
     [case |-> "exec.cap_permitted", variant |-> "IntEvaluator", reg |-> FALSE, obj |-> "*Event", attr |-> "Exec.Process.Credentials.CapPermitted", int |-> TRUE, weight |-> "HandlerWeight"],
     [case |-> "exec.comm", variant |-> "StringEvaluator", reg |-> FALSE, obj |-> "*Event", attr |-> "Exec.Process.Comm", int |-> FALSE, weight |-> "HandlerWeight"],
     [case |-> "exec.cookie", variant |-> "IntEvaluator", reg |-> FALSE, obj |-> "*Event", attr |-> "Exec.Process.Cookie", int |-> TRUE, weight |-> "HandlerWeight"],
     [case |-> "exec.egid", variant |-> "IntEvaluator", reg |-> FALSE, obj |-> "*Event", attr |-> "Exec.Process.Credentials.EGID", int |-> TRUE, weight |-> "HandlerWeight"],
     [case |-> "exec.egroup", variant |-> "StringEvaluator", reg |-> FALSE, obj |-> "*Event", attr |-> "Exec.Process.Credentials.EGroup", int |-> FALSE, weight |-> "HandlerWeight"],
     [case |-> "exec.envs", variant |-> "StringEvaluator", reg |-> TRUE, obj |-> "*string", attr |-> "", int |-> FALSE, weight |-> "IteratorWeight"],
     [case |-> "exec.envs_truncated", variant |-> "BoolEvaluator", reg |-> FALSE, obj |-> "*Event", attr |-> "Exec.EnvsTruncated", int |-> FALSE, weight |-> "FunctionWeight"],
     [case |-> "exec.euid", variant |-> "IntEvaluator", reg |-> FALSE, obj |-> "*Event", attr |-> "Exec.Process.Credentials.EUID", int |-> TRUE, weight |-> "HandlerWeight"],
     [case |-> "exec.euser", variant |-> "StringEvaluator", reg |-> FALSE, obj |-> "*Event", attr |-> "Exec.Process.Credentials.EUser", int |-> FALSE, weight |-> "HandlerWeight"],
     [case |-> "exec.file.container_path", variant |-> "StringEvaluator", reg |-> FALSE, obj |-> "*Event", attr |-> "Exec.Process.ContainerPath", int |-> FALSE, weight |-> "HandlerWeight"],
     [case |-> "exec.file.gid", variant |-> "IntEvaluator", reg |-> FALSE, obj |-> "*Event", attr |-> "Exec.Process.FileFields.GID", int |-> TRUE, weight |-> "FunctionWeight"],
     [case |-> "exec.file.group", variant |-> "StringEvaluator", reg |-> FALSE, obj |-> "*Event", attr |-> "Exec.Process.FileFields.Group", int |-> FALSE, weight |-> "HandlerWeight"],
     [case |-> "exec.file.inode", variant |-> "IntEvaluator", reg |-> FALSE, obj |-> "*Event", attr |-> "Exec.Process.FileFields.Inode", int |-> TRUE, weight |-> "FunctionWeight"],
     [case |-> "exec.file.mode", variant |-> "IntEvaluator", reg |-> FALSE, obj |-> "*Event", attr |-> "Exec.Process.FileFields.Mode", int |-> TRUE, weight |-> "FunctionWeight"],
     [case |-> "exec.file.mount_id", variant |-> "IntEvaluator", reg |-> FALSE, obj |-> "*Event", attr |-> "Exec.Process.FileFields.MountID", int |-> TRUE, weight |-> "FunctionWeight"],
     [case |-> "exec.file.name", variant |-> "StringEvaluator", reg |-> FALSE, obj |-> "*Event", attr |-> "Exec.Process.BasenameStr", int |-> FALSE, weight |-> "HandlerWeight"],
     [case |-> "exec.file.overlay_numlower", variant |-> "IntEvaluator", reg |-> FALSE, obj |-> "*Event", attr |-> "Exec.Process.FileFields.OverlayNumLower", int |-> TRUE, weight |-> "FunctionWeight"],
     [case |-> "exec.file.path", variant |-> "StringEvaluator", reg |-> FALSE, obj |-> "*Event", attr |-> "Exec.Process.PathnameStr", int |-> FALSE, weight |-> "HandlerWeight"],
     [case |-> "exec.file.uid", variant |-> "IntEvaluator", reg |-> FALSE, obj |-> "*Event", attr |-> "Exec.Process.FileFields.UID", int |-> TRUE, weight |-> "FunctionWeight"],
     [case |-> "exec.file.user", variant |-> "StringEvaluator", reg |-> FALSE, obj |-> "*Event", attr |-> "Exec.Process.FileFields.User", int |-> FALSE, weight |-> "HandlerWeight"],
     [case |-> "exec.fsgid", variant |-> "IntEvaluator", reg |-> FALSE, obj |-> "*Event", attr |-> "Exec.Process.Credentials.FSGID", int |-> TRUE, weight |-> "HandlerWeight"],
     [case |-> "exec.fsgroup", variant |-> "StringEvaluator", reg |-> FALSE, obj |-> "*Event", attr |-> "Exec.Process.Credentials.FSGroup", int |-> FALSE, weight |-> "HandlerWeight"],
     [case |-> "exec.fsuid", variant |-> "IntEvaluator", reg |-> FALSE, obj |-> "*Event", attr |-> "Exec.Process.Credentials.FSUID", int |-> TRUE, weight |-> "HandlerWeight"],
     [case |-> "exec.fsuser", variant |-> "StringEvaluator", reg |-> FALSE, obj |-> "*Event", attr |-> "Exec.Process.Credentials.FSUser", int |-> FALSE, weight |-> "HandlerWeight"],
     [case |-> "exec.gid", variant |-> "IntEvaluator", reg |-> FALSE, obj |-> "*Event", attr |-> "Exec.Process.Credentials.GID", int |-> TRUE, weight |-> "HandlerWeight"],
     [case |-> "exec.group", variant |-> "StringEvaluator", reg |-> FALSE, obj |-> "*Event", attr |-> "Exec.Process.Credentials.Group", int |-> FALSE, weight |-> "HandlerWeight"],
     [case |-> "exec.ppid", variant |-> "IntEvaluator", reg |-> FALSE, obj |-> "*Event", attr |-> "Exec.Process.PPid", int |-> TRUE, weight |-> "HandlerWeight"],
     [case |-> "exec.tty_name", variant |-> "StringEvaluator", reg |-> FALSE, obj |-> "*Event", attr |-> "Exec.Process.TTYName", int |-> FALSE, weight |-> "HandlerWeight"],
     [case |-> "exec.uid", variant |-> "IntEvaluator", reg |-> FALSE, obj |-> "*Event", attr |-> "Exec.Process.Credentials.UID", int |-> TRUE, weight |-> "HandlerWeight"],
     [case |-> "exec.user", variant |-> "StringEvaluator", reg |-> FALSE, obj |-> "*Event", attr |-> "Exec.Process.Credentials.User", int |-> FALSE, weight |-> "HandlerWeight"],
     [case |-> "link.file.container_path", variant |-> "StringEvaluator", reg |-> FALSE, obj |-> "*Event", attr |-> "Link.Source.ContainerPath", int |-> FALSE, weight |-> "HandlerWeight"],
     [case |-> "link.file.destination.container_path", variant |-> "StringEvaluator", reg |-> FALSE, obj |-> "*Event", attr |-> "Link.Target.ContainerPath", int |-> FALSE, weight |-> "HandlerWeight"],
     [case |-> "link.file.destination.gid", variant |-> "IntEvaluator", reg |-> FALSE, obj |-> "*Event", attr |-> "Link.Target.FileFields.GID", int |-> TRUE, weight |-> "FunctionWeight"],
     [case |-> "link.file.destination.group", variant |-> "StringEvaluator", reg |-> FALSE, obj |-> "*Event", attr |-> "Link.Target.FileFields.Group", int |-> FALSE, weight |-> "HandlerWeight"],
     [case |-> "link.file.destination.inode", variant |-> "IntEvaluator", reg |-> FALSE, obj |-> "*Event", attr |-> "Link.Target.FileFields.Inode", int |-> TRUE, weight |-> "FunctionWeight"],
     [case |-> "link.file.destination.mode", variant |-> "IntEvaluator", reg |-> FALSE, obj |-> "*Event", attr |-> "Link.Target.FileFields.Mode", int |-> TRUE, weight |-> "FunctionWeight"],
     [case |-> "link.file.destination.mount_id", variant |-> "IntEvaluator", reg |-> FALSE, obj |-> "*Event", attr |-> "Link.Target.FileFields.MountID", int |-> TRUE, weight |-> "FunctionWeight"],
     [case |-> "link.file.destination.name", variant |-> "StringEvaluator", reg |-> FALSE, obj |-> "*Event", attr |-> "Link.Target.BasenameStr", int |-> FALSE, weight |-> "HandlerWeight"],
     [case |-> "link.file.destination.overlay_numlower", variant |-> "IntEvaluator", reg |-> FALSE, obj |-> "*Event", attr |-> "Link.Target.FileFields.OverlayNumLower", int |-> TRUE, weight |-> "FunctionWeight"],
     [case |-> "link.file.destination.path", variant |-> "StringEvaluator", reg |-> FALSE, obj |-> "*Event", attr |-> "Link.Target.PathnameStr", int |-> FALSE, weight |-> "HandlerWeight"],
     [case |-> "link.file.destination.uid", variant |-> "IntEvaluator", reg |-> FALSE, obj |-> "*Event", attr |-> "Link.Target.FileFields.UID", int |-> TRUE, weight |-> "FunctionWeight"],
     [case |-> "link.file.destination.user", variant |-> "StringEvaluator", reg |-> FALSE, obj |-> "*Event", attr |-> "Link.Target.FileFields.User", int |-> FALSE, weight |-> "HandlerWeight"],
     [case |-> "link.file.gid", variant |-> "IntEvaluator", reg |-> FALSE, obj |-> "*Event", attr |-> "Link.Source.FileFields.GID", int |-> TRUE, weight |-> "FunctionWeight"],
     [case |-> "link.file.group", variant |-> "StringEvaluator", reg |-> FALSE, obj |-> "*Event", attr |-> "Link.Source.FileFields.Group", int |-> FALSE, weight |-> "HandlerWeight"],
     [case |-> "link.file.inode", variant |-> "IntEvaluator", reg |-> FALSE, obj |-> "*Event", attr |-> "Link.Source.FileFields.Inode", int |-> TRUE, weight |-> "FunctionWeight"],
     [case |-> "link.file.mode", variant |-> "IntEvaluator", reg |-> FALSE, obj |-> "*Event", attr |-> "Link.Source.FileFields.Mode", int |-> TRUE, weight |-> "FunctionWeight"],
     [case |-> "link.file.mount_id", variant |-> "IntEvaluator", reg |-> FALSE, obj |-> "*Event", attr |-> "Link.Source.FileFields.MountID", int |-> TRUE, weight |-> "FunctionWeight"],
     [case |-> "link.file.name", variant |-> "StringEvaluator", reg |-> FALSE, obj |-> "*Event", attr |-> "Link.Source.BasenameStr", int |-> FALSE, weight |-> "HandlerWeight"],
     [case |-> "link.file.overlay_numlower", variant |-> "IntEvaluator", reg |-> FALSE, obj |-> "*Event", attr |-> "Link.Source.FileFields.OverlayNumLower", int |-> TRUE, weight |-> "FunctionWeight"],
     [case |-> "link.file.path", variant |-> "StringEvaluator", reg |-> FALSE, obj |-> "*Event", attr |-> "Link.Source.PathnameStr", int |-> FALSE, weight |-> "HandlerWeight"],
     [case |-> "link.file.uid", variant |-> "IntEvaluator", reg |-> FALSE, obj |-> "*Event", attr |-> "Link.Source.FileFields.UID", int |-> TRUE, weight |-> "FunctionWeight"],
     [case |-> "link.file.user", variant |-> "StringEvaluator", reg |-> FALSE, obj |-> "*Event", attr |-> "Link.Source.FileFields.User", int |-> FALSE, weight |-> "HandlerWeight"],
     [case |-> "link.retval", variant |-> "IntEvaluator", reg |-> FALSE, obj |-> "*Event", attr |-> "Link.SyscallEvent.Retval", int |-> TRUE, weight |-> "FunctionWeight"],
     [case |-> "mkdir.file.container_path", variant |-> "StringEvaluator", reg |-> FALSE, obj |-> "*Event", attr |-> "Mkdir.File.ContainerPath", int |-> FALSE, weight |-> "HandlerWeight"],
     [case |-> "mkdir.file.destination.mode", variant |-> "IntEvaluator", reg |-> FALSE, obj |-> "*Event", attr |-> "Mkdir.Mode", int |-> TRUE, weight |-> "FunctionWeight"],
     [case |-> "mkdir.file.gid", variant |-> "IntEvaluator", reg |-> FALSE, obj |-> "*Event", attr |-> "Mkdir.File.FileFields.GID", int |-> TRUE, weight |-> "FunctionWeight"],
     [case |-> "mkdir.file.group", variant |-> "StringEvaluator", reg |-> FALSE, obj |-> "*Event", attr |-> "Mkdir.File.FileFields.Group", int |-> FALSE, weight |-> "HandlerWeight"],
     [case |-> "mkdir.file.inode", variant |-> "IntEvaluator", reg |-> FALSE, obj |-> "*Event", attr |-> "Mkdir.File.FileFields.Inode", int |-> TRUE, weight |-> "FunctionWeight"],
     [case |-> "mkdir.file.mode", variant |-> "IntEvaluator", reg |-> FALSE, obj |-> "*Event", attr |-> "Mkdir.File.FileFields.Mode", int |-> TRUE, weight |-> "FunctionWeight"],
     [case |-> "mkdir.file.mount_id", variant |-> "IntEvaluator", reg |-> FALSE, obj |-> "*Event", attr |-> "Mkdir.File.FileFields.MountID", int |-> TRUE, weight |-> "FunctionWeight"],
     [case |-> "mkdir.file.name", variant |-> "StringEvaluator", reg |-> FALSE, obj |-> "*Event", attr |-> "Mkdir.File.BasenameStr", int |-> FALSE, weight |-> "HandlerWeight"],
     [case |-> "mkdir.file.overlay_numlower", variant |-> "IntEvaluator", reg |-> FALSE, obj |-> "*Event", attr |-> "Mkdir.File.FileFields.OverlayNumLower", int |-> TRUE, weight |-> "FunctionWeight"],
     [case |-> "mkdir.file.path", variant |-> "StringEvaluator", reg |-> FALSE, obj |-> "*Event", attr |-> "Mkdir.File.PathnameStr", int |-> FALSE, weight |-> "HandlerWeight"],
     [case |-> "mkdir.file.uid", variant |-> "IntEvaluator", reg |-> FALSE, obj |-> "*Event", attr |-> "Mkdir.File.FileFields.UID", int |-> TRUE, weight |-> "FunctionWeight"],
     [case |-> "mkdir.file.user", variant |-> "StringEvaluator", reg |-> FALSE, obj |-> "*Event", attr |-> "Mkdir.File.FileFields.User", int |-> FALSE, weight |-> "HandlerWeight"],
     [case |-> "mkdir.retval", variant |-> "IntEvaluator", reg |-> FALSE, obj |-> "*Event", attr |-> "Mkdir.SyscallEvent.Retval", int |-> TRUE, weight |-> "FunctionWeight"],
     [case |-> "open.file.container_path", variant |-> "StringEvaluator", reg |-> FALSE, obj |-> "*Event", attr |-> "Open.File.ContainerPath", int |-> FALSE, weight |-> "HandlerWeight"],
     [case |-> "open.file.destination.mode", variant |-> "IntEvaluator", reg |-> FALSE, obj |-> "*Event", attr |-> "Open.Mode", int |-> TRUE, weight |-> "FunctionWeight"],
     [case |-> "open.file.gid", variant |-> "IntEvaluator", reg |-> FALSE, obj |-> "*Event", attr |-> "Open.File.FileFields.GID", int |-> TRUE, weight |-> "FunctionWeight"],
     [case |-> "open.file.group", variant |-> "StringEvaluator", reg |-> FALSE, obj |-> "*Event", attr |-> "Open.File.FileFields.Group", int |-> FALSE, weight |-> "HandlerWeight"],
     [case |-> "open.file.inode", variant |-> "IntEvaluator", reg |-> FALSE, obj |-> "*Event", attr |-> "Open.File.FileFields.Inode", int |-> TRUE, weight |-> "FunctionWeight"],
     [case |-> "open.file.mode", variant |-> "IntEvaluator", reg |-> FALSE, obj |-> "*Event", attr |-> "Open.File.FileFields.Mode", int |-> TRUE, weight |-> "FunctionWeight"],
     [case |-> "open.file.mount_id", variant |-> "IntEvaluator", reg |-> FALSE, obj |-> "*Event", attr |-> "Open.File.FileFields.MountID", int |-> TRUE, weight |-> "FunctionWeight"],
     [case |-> "open.file.name", variant |-> "StringEvaluator", reg |-> FALSE, obj |-> "*Event", attr |-> "Open.File.BasenameStr", int |-> FALSE, weight |-> "HandlerWeight"],
     [case |-> "open.file.overlay_numlower", variant |-> "IntEvaluator", reg |-> FALSE, obj |-> "*Event", attr |-> "Open.File.FileFields.OverlayNumLower", int |-> TRUE, weight |-> "FunctionWeight"],
     [case |-> "open.file.path", variant |-> "StringEvaluator", reg |-> FALSE, obj |-> "*Event", attr |-> "Open.File.PathnameStr", int |-> FALSE, weight |-> "HandlerWeight"],
     [case |-> "open.file.uid", variant |-> "IntEvaluator", reg |-> FALSE, obj |-> "*Event", attr |-> "Open.File.FileFields.UID", int |-> TRUE, weight |-> "FunctionWeight"],
     [case |-> "open.file.user", variant |-> "StringEvaluator", reg |-> FALSE, obj |-> "*Event", attr |-> "Open.File.FileFields.User", int |-> FALSE, weight |-> "HandlerWeight"],
     [case |-> "open.flags", variant |-> "IntEvaluator", reg |-> FALSE, obj |-> "*Event", attr |-> "Open.Flags", int |-> TRUE, weight |-> "FunctionWeight"],
     [case |-> "open.retval", variant |-> "IntEvaluator", reg |-> FALSE, obj |-> "*Event", attr |-> "Open.SyscallEvent.Retval", int |-> TRUE, weight |-> "FunctionWeight"],
     [case |-> "process.ancestors.cap_effective", variant |-> "IntEvaluator", reg |-> TRUE, obj |-> "*ProcessCacheEntry", attr |-> "ProcessContext.Process.Credentials.CapEffective", int |-> TRUE, weight |-> "IteratorWeight"],
     [case |-> "process.ancestors.cap_permitted", variant |-> "IntEvaluator", reg |-> TRUE, obj |-> "*ProcessCacheEntry", attr |-> "ProcessContext.Process.Credentials.CapPermitted", int |-> TRUE, weight |-> "IteratorWeight"],
     [case |-> "process.ancestors.comm", variant |-> "StringEvaluator", reg |-> TRUE, obj |-> "*ProcessCacheEntry", attr |-> "ProcessContext.Process.Comm", int |-> FALSE, weight |-> "IteratorWeight"],
     [case |-> "process.ancestors.cookie", variant |-> "IntEvaluator", reg |-> TRUE, obj |-> "*ProcessCacheEntry", attr |-> "ProcessContext.Process.Cookie", int |-> TRUE, weight |-> "IteratorWeight"],
     [case |-> "process.ancestors.egid", variant |-> "IntEvaluator", reg |-> TRUE, obj |-> "*ProcessCacheEntry", attr |-> "ProcessContext.Process.Credentials.EGID", int |-> TRUE, weight |-> "IteratorWeight"],
     [case |-> "process.ancestors.egroup", variant |-> "StringEvaluator", reg |-> TRUE, obj |-> "*ProcessCacheEntry", attr |-> "ProcessContext.Process.Credentials.EGroup", int |-> FALSE, weight |-> "IteratorWeight"],
     [case |-> "process.ancestors.euid", variant |-> "IntEvaluator", reg |-> TRUE, obj |-> "*ProcessCacheEntry", attr |-> "ProcessContext.Process.Credentials.EUID", int |-> TRUE, weight |-> "IteratorWeight"],
     [case |-> "process.ancestors.euser", variant |-> "StringEvaluator", reg |-> TRUE, obj |-> "*ProcessCacheEntry", attr |-> "ProcessContext.Process.Credentials.EUser", int |-> FALSE, weight |-> "IteratorWeight"],
     [case |-> "process.ancestors.file.container_path", variant |-> "StringEvaluator", reg |-> TRUE, obj |-> "*ProcessCacheEntry", attr |-> "ProcessContext.Process.ContainerPath", int |-> FALSE, weight |-> "IteratorWeight"],
     [case |-> "process.ancestors.file.gid", variant |-> "IntEvaluator", reg |-> TRUE, obj |-> "*ProcessCacheEntry", attr |-> "ProcessContext.Process.FileFields.GID", int |-> TRUE, weight |-> "IteratorWeight"],
     [case |-> "process.ancestors.file.group", variant |-> "StringEvaluator", reg |-> TRUE, obj |-> "*ProcessCacheEntry", attr |-> "ProcessContext.Process.FileFields.Group", int |-> FALSE, weight |-> "IteratorWeight"],
     [case |-> "process.ancestors.file.inode", variant |-> "IntEvaluator", reg |-> TRUE, obj |-> "*ProcessCacheEntry", attr |-> "ProcessContext.Process.FileFields.Inode", int |-> TRUE, weight |-> "IteratorWeight"],
     [case |-> "process.ancestors.file.mode", variant |-> "IntEvaluator", reg |-> TRUE, obj |-> "*ProcessCacheEntry", attr |-> "ProcessContext.Process.FileFields.Mode", int |-> TRUE, weight |-> "IteratorWeight"],
     [case |-> "process.ancestors.file.mount_id", variant |-> "IntEvaluator", reg |-> TRUE, obj |-> "*ProcessCacheEntry", attr |-> "ProcessContext.Process.FileFields.MountID", int |-> TRUE, weight |-> "IteratorWeight"],
     [case |-> "process.ancestors.file.name", variant |-> "StringEvaluator", reg |-> TRUE, obj |-> "*ProcessCacheEntry", attr |-> "ProcessContext.Process.BasenameStr", int |-> FALSE, weight |-> "IteratorWeight"],
     [case |-> "process.ancestors.file.overlay_numlower", variant |-> "IntEvaluator", reg |-> TRUE, obj |-> "*ProcessCacheEntry", attr |-> "ProcessContext.Process.FileFields.OverlayNumLower", int |-> TRUE, weight |-> "IteratorWeight"],
     [case |-> "process.ancestors.file.path", variant |-> "StringEvaluator", reg |-> TRUE, obj |-> "*ProcessCacheEntry", attr |-> "ProcessContext.Process.PathnameStr", int |-> FALSE, weight |-> "IteratorWeight"],
     [case |-> "process.ancestors.file.uid", variant |-> "IntEvaluator", reg |-> TRUE, obj |-> "*ProcessCacheEntry", attr |-> "ProcessContext.Process.FileFields.UID", int |-> TRUE, weight |-> "IteratorWeight"],
     [case |-> "process.ancestors.file.user", variant |-> "StringEvaluator", reg |-> TRUE, obj |-> "*ProcessCacheEntry", attr |-> "ProcessContext.Process.FileFields.User", int |-> FALSE, weight |-> "IteratorWeight"],
     [case |-> "process.ancestors.fsgid", variant |-> "IntEvaluator", reg |-> TRUE, obj |-> "*ProcessCacheEntry", attr |-> "ProcessContext.Process.Credentials.FSGID", int |-> TRUE, weight |-> "IteratorWeight"],
     [case |-> "process.ancestors.fsgroup", variant |-> "StringEvaluator", reg |-> TRUE, obj |-> "*ProcessCacheEntry", attr |-> "ProcessContext.Process.Credentials.FSGroup", int |-> FALSE, weight |-> "IteratorWeight"],
     [case |-> "process.ancestors.fsuid", variant |-> "IntEvaluator", reg |-> TRUE, obj |-> "*ProcessCacheEntry", attr |-> "ProcessContext.Process.Credentials.FSUID", int |-> TRUE, weight |-> "IteratorWeight"],
     [case |-> "process.ancestors.fsuser", variant |-> "StringEvaluator", reg |-> TRUE, obj |-> "*ProcessCacheEntry", attr |-> "ProcessContext.Process.Credentials.FSUser", int |-> FALSE, weight |-> "IteratorWeight"],
     [case |-> "process.ancestors.gid", variant |-> "IntEvaluator", reg |-> TRUE, obj |-> "*ProcessCacheEntry", attr |-> "ProcessContext.Process.Credentials.GID", int |-> TRUE, weight |-> "IteratorWeight"],
     [case |-> "process.ancestors.group", variant |-> "StringEvaluator", reg |-> TRUE, obj |-> "*ProcessCacheEntry", attr |-> "ProcessContext.Process.Credentials.Group", int |-> FALSE, weight |-> "IteratorWeight"],
     [case |-> "process.ancestors.id", variant |-> "StringEvaluator", reg |-> TRUE, obj |-> "*ProcessCacheEntry", attr |-> "ContainerContext.ID", int |-> FALSE, weight |-> "IteratorWeight"],
     [case |-> "process.ancestors.pid", variant |-> "IntEvaluator", reg |-> TRUE, obj |-> "*ProcessCacheEntry", attr |-> "ProcessContext.Pid", int |-> TRUE, weight |-> "IteratorWeight"],
     [case |-> "process.ancestors.ppid", variant |-> "IntEvaluator", reg |-> TRUE, obj |-> "*ProcessCacheEntry", attr |-> "ProcessContext.Process.PPid", int |-> TRUE, weight |-> "IteratorWeight"],
     [case |-> "process.ancestors.tid", variant |-> "IntEvaluator", reg |-> TRUE, obj |-> "*ProcessCacheEntry", attr |-> "ProcessContext.Tid", int |-> TRUE, weight |-> "IteratorWeight"],
     [case |-> "process.ancestors.tty_name", variant |-> "StringEvaluator", reg |-> TRUE, obj |-> "*ProcessCacheEntry", attr |-> "ProcessContext.Process.TTYName", int |-> FALSE, weight |-> "IteratorWeight"],
     [case |-> "process.ancestors.uid", variant |-> "IntEvaluator", reg |-> TRUE, obj |-> "*ProcessCacheEntry", attr |-> "ProcessContext.Process.Credentials.UID", int |-> TRUE, weight |-> "IteratorWeight"],
     [case |-> "process.ancestors.user", variant |-> "StringEvaluator", reg |-> TRUE, obj |-> "*ProcessCacheEntry", attr |-> "ProcessContext.Process.Credentials.User", int |-> FALSE, weight |-> "IteratorWeight"],
     [case |-> "process.cap_effective", variant |-> "IntEvaluator", reg |-> FALSE, obj |-> "*Event", attr |-> "ProcessContext.Process.Credentials.CapEffective", int |-> TRUE, weight |-> "HandlerWeight"],
     [case |-> "process.cap_permitted", variant |-> "IntEvaluator", reg |-> FALSE, obj |-> "*Event", attr |-> "ProcessContext.Process.Credentials.CapPermitted", int |-> TRUE, weight |-> "HandlerWeight"],
     [case |-> "process.comm", variant |-> "StringEvaluator", reg |-> FALSE, obj |-> "*Event", attr |-> "ProcessContext.Process.Comm", int |-> FALSE, weight |-> "HandlerWeight"],
     [case |-> "process.cookie", variant |-> "IntEvaluator", reg |-> FALSE, obj |-> "*Event", attr |-> "ProcessContext.Process.Cookie", int |-> TRUE, weight |-> "HandlerWeight"],
     [case |-> "process.egid", variant |-> "IntEvaluator", reg |-> FALSE, obj |-> "*Event", attr |-> "ProcessContext.Process.Credentials.EGID", int |-> TRUE, weight |-> "HandlerWeight"],
     [case |-> "process.egroup", variant |-> "StringEvaluator", reg |-> FALSE, obj |-> "*Event", attr |-> "ProcessContext.Process.Credentials.EGroup", int |-> FALSE, weight |-> "HandlerWeight"],
     [case |-> "process.euid", variant |-> "IntEvaluator", reg |-> FALSE, obj |-> "*Event", attr |-> "ProcessContext.Process.Credentials.EUID", int |-> TRUE, weight |-> "HandlerWeight"],
     [case |-> "process.euser", variant |-> "StringEvaluator", reg |-> FALSE, obj |-> "*Event", attr |-> "ProcessContext.Process.Credentials.EUser", int |-> FALSE, weight |-> "HandlerWeight"],
     [case |-> "process.file.container_path", variant |-> "StringEvaluator", reg |-> FALSE, obj |-> "*Event", attr |-> "ProcessContext.Process.ContainerPath", int |-> FALSE, weight |-> "HandlerWeight"],
     [case |-> "process.file.gid", variant |-> "IntEvaluator", reg |-> FALSE, obj |-> "*Event", attr |-> "ProcessContext.Process.FileFields.GID", int |-> TRUE, weight |-> "FunctionWeight"],
     [case |-> "process.file.group", variant |-> "StringEvaluator", reg |-> FALSE, obj |-> "*Event", attr |-> "ProcessContext.Process.FileFields.Group", int |-> FALSE, weight |-> "HandlerWeight"],
     [case |-> "process.file.inode", variant |-> "IntEvaluator", reg |-> FALSE, obj |-> "*Event", attr |-> "ProcessContext.Process.FileFields.Inode", int |-> TRUE, weight |-> "FunctionWeight"],
     [case |-> "process.file.mode", variant |-> "IntEvaluator", reg |-> FALSE, obj |-> "*Event", attr |-> "ProcessContext.Process.FileFields.Mode", int |-> TRUE, weight |-> "FunctionWeight"],
     [case |-> "process.file.mount_id", variant |-> "IntEvaluator", reg |-> FALSE, obj |-> "*Event", attr |-> "ProcessContext.Process.FileFields.MountID", int |-> TRUE, weight |-> "FunctionWeight"],
     [case |-> "process.file.name", variant |-> "StringEvaluator", reg |-> FALSE, obj |-> "*Event", attr |-> "ProcessContext.Process.BasenameStr", int |-> FALSE, weight |-> "HandlerWeight"],
     [case |-> "process.file.overlay_numlower", variant |-> "IntEvaluator", reg |-> FALSE, obj |-> "*Event", attr |-> "ProcessContext.Process.FileFields.OverlayNumLower", int |-> TRUE, weight |-> "FunctionWeight"],
     [case |-> "process.file.path", variant |-> "StringEvaluator", reg |-> FALSE, obj |-> "*Event", attr |-> "ProcessContext.Process.PathnameStr", int |-> FALSE, weight |-> "HandlerWeight"],
     [case |-> "process.file.uid", variant |-> "IntEvaluator", reg |-> FALSE, obj |-> "*Event", attr |-> "ProcessContext.Process.FileFields.UID", int |-> TRUE, weight |-> "FunctionWeight"],
     [case |-> "process.file.user", variant |-> "StringEvaluator", reg |-> FALSE, obj |-> "*Event", attr |-> "ProcessContext.Process.FileFields.User", int |-> FALSE, weight |-> "HandlerWeight"],
     [case |-> "process.fsgid", variant |-> "IntEvaluator", reg |-> FALSE, obj |-> "*Event", attr |-> "ProcessContext.Process.Credentials.FSGID", int |-> TRUE, weight |-> "HandlerWeight"],
     [case |-> "process.fsgroup", variant |-> "StringEvaluator", reg |-> FALSE, obj |-> "*Event", attr |-> "ProcessContext.Process.Credentials.FSGroup", int |-> FALSE, weight |-> "HandlerWeight"],
     [case |-> "process.fsuid", variant |-> "IntEvaluator", reg |-> FALSE, obj |-> "*Event", attr |-> "ProcessContext.Process.Credentials.FSUID", int |-> TRUE, weight |-> "HandlerWeight"],
     [case |-> "process.fsuser", variant |-> "StringEvaluator", reg |-> FALSE, obj |-> "*Event", attr |-> "ProcessContext.Process.Credentials.FSUser", int |-> FALSE, weight |-> "HandlerWeight"],
     [case |-> "process.gid", variant |-> "IntEvaluator", reg |-> FALSE, obj |-> "*Event", attr |-> "ProcessContext.Process.Credentials.GID", int |-> TRUE, weight |-> "HandlerWeight"],
     [case |-> "process.group", variant |-> "StringEvaluator", reg |-> FALSE, obj |-> "*Event", attr |-> "ProcessContext.Process.Credentials.Group", int |-> FALSE, weight |-> "HandlerWeight"],
     [case |-> "process.pid", variant |-> "IntEvaluator", reg |-> FALSE, obj |-> "*Event", attr |-> "ProcessContext.Pid", int |-> TRUE, weight |-> "FunctionWeight"],
     [case |-> "process.ppid", variant |-> "IntEvaluator", reg |-> FALSE, obj |-> "*Event", attr |-> "ProcessContext.Process.PPid", int |-> TRUE, weight |-> "HandlerWeight"],
     [case |-> "process.tid", variant |-> "IntEvaluator", reg |-> FALSE, obj |-> "*Event", attr |-> "ProcessContext.Tid", int |-> TRUE, weight |-> "FunctionWeight"],
     [case |-> "process.tty_name", variant |-> "StringEvaluator", reg |-> FALSE, obj |-> "*Event", attr |-> "ProcessContext.Process.TTYName", int |-> FALSE, weight |-> "HandlerWeight"],
     [case |-> "process.uid", variant |-> "IntEvaluator", reg |-> FALSE, obj |-> "*Event", attr |-> "ProcessContext.Process.Credentials.UID", int |-> TRUE, weight |-> "HandlerWeight"],
     [case |-> "process.user", variant |-> "StringEvaluator", reg |-> FALSE, obj |-> "*Event", attr |-> "ProcessContext.Process.Credentials.User", int |-> FALSE, weight |-> "HandlerWeight"],
     [case |-> "removexattr.file.container_path", variant |-> "StringEvaluator", reg |-> FALSE, obj |-> "*Event", attr |-> "RemoveXAttr.File.ContainerPath", int |-> FALSE, weight |-> "HandlerWeight"],
     [case |-> "removexattr.file.destination.name", variant |-> "StringEvaluator", reg |-> FALSE, obj |-> "*Event", attr |-> "RemoveXAttr.Name", int |-> FALSE, weight |-> "HandlerWeight"],
     [case |-> "removexattr.file.destination.namespace", variant |-> "StringEvaluator", reg |-> FALSE, obj |-> "*Event", attr |-> "RemoveXAttr.Namespace", int |-> FALSE, weight |-> "HandlerWeight"],
     [case |-> "removexattr.file.gid", variant |-> "IntEvaluator", reg |-> FALSE, obj |-> "*Event", attr |-> "RemoveXAttr.File.FileFields.GID", int |-> TRUE, weight |-> "FunctionWeight"],
     [case |-> "removexattr.file.group", variant |-> "StringEvaluator", reg |-> FALSE, obj |-> "*Event", attr |-> "RemoveXAttr.File.FileFields.Group", int |-> FALSE, weight |-> "HandlerWeight"],
     [case |-> "removexattr.file.inode", variant |-> "IntEvaluator", reg |-> FALSE, obj |-> "*Event", attr |-> "RemoveXAttr.File.FileFields.Inode", int |-> TRUE, weight |-> "FunctionWeight"],
     [case |-> "removexattr.file.mode", variant |-> "IntEvaluator", reg |-> FALSE, obj |-> "*Event", attr |-> "RemoveXAttr.File.FileFields.Mode", int |-> TRUE, weight |-> "FunctionWeight"],
     [case |-> "removexattr.file.mount_id", variant |-> "IntEvaluator", reg |-> FALSE, obj |-> "*Event", attr |-> "RemoveXAttr.File.FileFields.MountID", int |-> TRUE, weight |-> "FunctionWeight"],
     [case |-> "removexattr.file.name", variant |-> "StringEvaluator", reg |-> FALSE, obj |-> "*Event", attr |-> "RemoveXAttr.File.BasenameStr", int |-> FALSE, weight |-> "HandlerWeight"],
     [case |-> "removexattr.file.overlay_numlower", variant |-> "IntEvaluator", reg |-> FALSE, obj |-> "*Event", attr |-> "RemoveXAttr.File.FileFields.OverlayNumLower", int |-> TRUE, weight |-> "FunctionWeight"],
     [case |-> "removexattr.file.path", variant |-> "StringEvaluator", reg |-> FALSE, obj |-> "*Event", attr |-> "RemoveXAttr.File.PathnameStr", int |-> FALSE, weight |-> "HandlerWeight"],
     [case |-> "removexattr.file.uid", variant |-> "IntEvaluator", reg |-> FALSE, obj |-> "*Event", attr |-> "RemoveXAttr.File.FileFields.UID", int |-> TRUE, weight |-> "FunctionWeight"],
     [case |-> "removexattr.file.user", variant |-> "StringEvaluator", reg |-> FALSE, obj |-> "*Event", attr |-> "RemoveXAttr.File.FileFields.User", int |-> FALSE, weight |-> "HandlerWeight"],
     [case |-> "removexattr.retval", variant |-> "IntEvaluator", reg |-> FALSE, obj |-> "*Event", attr |-> "RemoveXAttr.SyscallEvent.Retval", int |-> TRUE, weight |-> "FunctionWeight"],
     [case |-> "rename.file.container_path", variant |-> "StringEvaluator", reg |-> FALSE, obj |-> "*Event", attr |-> "Rename.Old.ContainerPath", int |-> FALSE, weight |-> "HandlerWeight"],
     [case |-> "rename.file.destination.container_path", variant |-> "StringEvaluator", reg |-> FALSE, obj |-> "*Event", attr |-> "Rename.New.ContainerPath", int |-> FALSE, weight |-> "HandlerWeight"],
     [case |-> "rename.file.destination.gid", variant |-> "IntEvaluator", reg |-> FALSE, obj |-> "*Event", attr |-> "Rename.New.FileFields.GID", int |-> TRUE, weight |-> "FunctionWeight"],
     [case |-> "rename.file.destination.group", variant |-> "StringEvaluator", reg |-> FALSE, obj |-> "*Event", attr |-> "Rename.New.FileFields.Group", int |-> FALSE, weight |-> "HandlerWeight"],
     [case |-> "rename.file.destination.inode", variant |-> "IntEvaluator", reg |-> FALSE, obj |-> "*Event", attr |-> "Rename.New.FileFields.Inode", int |-> TRUE, weight |-> "FunctionWeight"],
     [case |-> "rename.file.destination.mode", variant |-> "IntEvaluator", reg |-> FALSE, obj |-> "*Event", attr |-> "Rename.New.FileFields.Mode", int |-> TRUE, weight |-> "FunctionWeight"],
     [case |-> "rename.file.destination.mount_id", variant |-> "IntEvaluator", reg |-> FALSE, obj |-> "*Event", attr |-> "Rename.New.FileFields.MountID", int |-> TRUE, weight |-> "FunctionWeight"],
     [case |-> "rename.file.destination.name", variant |-> "StringEvaluator", reg |-> FALSE, obj |-> "*Event", attr |-> "Rename.New.BasenameStr", int |-> FALSE, weight |-> "HandlerWeight"],
     [case |-> "rename.file.destination.overlay_numlower", variant |-> "IntEvaluator", reg |-> FALSE, obj |-> "*Event", attr |-> "Rename.New.FileFields.OverlayNumLower", int |-> TRUE, weight |-> "FunctionWeight"],
     [case |-> "rename.file.destination.path", variant |-> "StringEvaluator", reg |-> FALSE, obj |-> "*Event", attr |-> "Rename.New.PathnameStr", int |-> FALSE, weight |-> "HandlerWeight"],
     [case |-> "rename.file.destination.uid", variant |-> "IntEvaluator", reg |-> FALSE, obj |-> "*Event", attr |-> "Rename.New.FileFields.UID", int |-> TRUE, weight |-> "FunctionWeight"],
     [case |-> "rename.file.destination.user", variant |-> "StringEvaluator", reg |-> FALSE, obj |-> "*Event", attr |-> "Rename.New.FileFields.User", int |-> FALSE, weight |-> "HandlerWeight"],
     [case |-> "rename.file.gid", variant |-> "IntEvaluator", reg |-> FALSE, obj |-> "*Event", attr |-> "Rename.Old.FileFields.GID", int |-> TRUE, weight |-> "FunctionWeight"],
     [case |-> "rename.file.group", variant |-> "StringEvaluator", reg |-> FALSE, obj |-> "*Event", attr |-> "Rename.Old.FileFields.Group", int |-> FALSE, weight |-> "HandlerWeight"],
     [case |-> "rename.file.inode", variant |-> "IntEvaluator", reg |-> FALSE, obj |-> "*Event", attr |-> "Rename.Old.FileFields.Inode", int |-> TRUE, weight |-> "FunctionWeight"],
     [case |-> "rename.file.mode", variant |-> "IntEvaluator", reg |-> FALSE, obj |-> "*Event", attr |-> "Rename.Old.FileFields.Mode", int |-> TRUE, weight |-> "FunctionWeight"],
     [case |-> "rename.file.mount_id", variant |-> "IntEvaluator", reg |-> FALSE, obj |-> "*Event", attr |-> "Rename.Old.FileFields.MountID", int |-> TRUE, weight |-> "FunctionWeight"],
     [case |-> "rename.file.name", variant |-> "StringEvaluator", reg |-> FALSE, obj |-> "*Event", attr |-> "Rename.Old.BasenameStr", int |-> FALSE, weight |-> "HandlerWeight"],
     [case |-> "rename.file.overlay_numlower", variant |-> "IntEvaluator", reg |-> FALSE, obj |-> "*Event", attr |-> "Rename.Old.FileFields.OverlayNumLower", int |-> TRUE, weight |-> "FunctionWeight"],
     [case |-> "rename.file.path", variant |-> "StringEvaluator", reg |-> FALSE, obj |-> "*Event", attr |-> "Rename.Old.PathnameStr", int |-> FALSE, weight |-> "HandlerWeight"],
     [case |-> "rename.file.uid", variant |-> "IntEvaluator", reg |-> FALSE, obj |-> "*Event", attr |-> "Rename.Old.FileFields.UID", int |-> TRUE, weight |-> "FunctionWeight"],
     [case |-> "rename.file.user", variant |-> "StringEvaluator", reg |-> FALSE, obj |-> "*Event", attr |-> "Rename.Old.FileFields.User", int |-> FALSE, weight |-> "HandlerWeight"],
     [case |-> "rename.retval", variant |-> "IntEvaluator", reg |-> FALSE, obj |-> "*Event", attr |-> "Rename.SyscallEvent.Retval", int |-> TRUE, weight |-> "FunctionWeight"],
     [case |-> "rmdir.file.container_path", variant |-> "StringEvaluator", reg |-> FALSE, obj |-> "*Event", attr |-> "Rmdir.File.ContainerPath", int |-> FALSE, weight |-> "HandlerWeight"],
     [case |-> "rmdir.file.gid", variant |-> "IntEvaluator", reg |-> FALSE, obj |-> "*Event", attr |-> "Rmdir.File.FileFields.GID", int |-> TRUE, weight |-> "FunctionWeight"],
     [case |-> "rmdir.file.group", variant |-> "StringEvaluator", reg |-> FALSE, obj |-> "*Event", attr |-> "Rmdir.File.FileFields.Group", int |-> FALSE, weight |-> "HandlerWeight"],
     [case |-> "rmdir.file.inode", variant |-> "IntEvaluator", reg |-> FALSE, obj |-> "*Event", attr |-> "Rmdir.File.FileFields.Inode", int |-> TRUE, weight |-> "FunctionWeight"],
     [case |-> "rmdir.file.mode", variant |-> "IntEvaluator", reg |-> FALSE, obj |-> "*Event", attr |-> "Rmdir.File.FileFields.Mode", int |-> TRUE, weight |-> "FunctionWeight"],
     [case |-> "rmdir.file.mount_id", variant |-> "IntEvaluator", reg |-> FALSE, obj |-> "*Event", attr |-> "Rmdir.File.FileFields.MountID", int |-> TRUE, weight |-> "FunctionWeight"],
     [case |-> "rmdir.file.name", variant |-> "StringEvaluator", reg |-> FALSE, obj |-> "*Event", attr |-> "Rmdir.File.BasenameStr", int |-> FALSE, weight |-> "HandlerWeight"],
     [case |-> "rmdir.file.overlay_numlower", variant |-> "IntEvaluator", reg |-> FALSE, obj |-> "*Event", attr |-> "Rmdir.File.FileFields.OverlayNumLower", int |-> TRUE, weight |-> "FunctionWeight"],
     [case |-> "rmdir.file.path", variant |-> "StringEvaluator", reg |-> FALSE, obj |-> "*Event", attr |-> "Rmdir.File.PathnameStr", int |-> FALSE, weight |-> "HandlerWeight"],
     [case |-> "rmdir.file.uid", variant |-> "IntEvaluator", reg |-> FALSE, obj |-> "*Event", attr |-> "Rmdir.File.FileFields.UID", int |-> TRUE, weight |-> "FunctionWeight"],
     [case |-> "rmdir.file.user", variant |-> "StringEvaluator", reg |-> FALSE, obj |-> "*Event", attr |-> "Rmdir.File.FileFields.User", int |-> FALSE, weight |-> "HandlerWeight"],
     [case |-> "rmdir.retval", variant |-> "IntEvaluator", reg |-> FALSE, obj |-> "*Event", attr |-> "Rmdir.SyscallEvent.Retval", int |-> TRUE, weight |-> "FunctionWeight"],
     [case |-> "setgid.egid", variant |-> "IntEvaluator", reg |-> FALSE, obj |-> "*Event", attr |-> "SetGID.EGID", int |-> TRUE, weight |-> "FunctionWeight"],
     [case |-> "setgid.egroup", variant |-> "StringEvaluator", reg |-> FALSE, obj |-> "*Event", attr |-> "SetGID.EGroup", int |-> FALSE, weight |-> "HandlerWeight"],
     [case |-> "setgid.fsgid", variant |-> "IntEvaluator", reg |-> FALSE, obj |-> "*Event", attr |-> "SetGID.FSGID", int |-> TRUE, weight |-> "FunctionWeight"],
     [case |-> "setgid.fsgroup", variant |-> "StringEvaluator", reg |-> FALSE, obj |-> "*Event", attr |-> "SetGID.FSGroup", int |-> FALSE, weight |-> "HandlerWeight"],
     [case |-> "setgid.gid", variant |-> "IntEvaluator", reg |-> FALSE, obj |-> "*Event", attr |-> "SetGID.GID", int |-> TRUE, weight |-> "FunctionWeight"],
     [case |-> "setgid.group", variant |-> "StringEvaluator", reg |-> FALSE, obj |-> "*Event", attr |-> "SetGID.Group", int |-> FALSE, weight |-> "HandlerWeight"],
     [case |-> "setuid.euid", variant |-> "IntEvaluator", reg |-> FALSE, obj |-> "*Event", attr |-> "SetUID.EUID", int |-> TRUE, weight |-> "FunctionWeight"],
     [case |-> "setuid.euser", variant |-> "StringEvaluator", reg |-> FALSE, obj |-> "*Event", attr |-> "SetUID.EUser", int |-> FALSE, weight |-> "HandlerWeight"],
     [case |-> "setuid.fsuid", variant |-> "IntEvaluator", reg |-> FALSE, obj |-> "*Event", attr |-> "SetUID.FSUID", int |-> TRUE, weight |-> "FunctionWeight"],
     [case |-> "setuid.fsuser", variant |-> "StringEvaluator", reg |-> FALSE, obj |-> "*Event", attr |-> "SetUID.FSUser", int |-> FALSE, weight |-> "HandlerWeight"],
     [case |-> "setuid.uid", variant |-> "IntEvaluator", reg |-> FALSE, obj |-> "*Event", attr |-> "SetUID.UID", int |-> TRUE, weight |-> "FunctionWeight"],
     [case |-> "setuid.user", variant |-> "StringEvaluator", reg |-> FALSE, obj |-> "*Event", attr |-> "SetUID.User", int |-> FALSE, weight |-> "HandlerWeight"],
     [case |-> "setxattr.file.container_path", variant |-> "StringEvaluator", reg |-> FALSE, obj |-> "*Event", attr |-> "SetXAttr.File.ContainerPath", int |-> FALSE, weight |-> "HandlerWeight"],
     [case |-> "setxattr.file.destination.name", variant |-> "StringEvaluator", reg |-> FALSE, obj |-> "*Event", attr |-> "SetXAttr.Name", int |-> FALSE, weight |-> "HandlerWeight"],
     [case |-> "setxattr.file.destination.namespace", variant |-> "StringEvaluator", reg |-> FALSE, obj |-> "*Event", attr |-> "SetXAttr.Namespace", int |-> FALSE, weight |-> "HandlerWeight"],
     [case |-> "setxattr.file.gid", variant |-> "IntEvaluator", reg |-> FALSE, obj |-> "*Event", attr |-> "SetXAttr.File.FileFields.GID", int |-> TRUE, weight |-> "FunctionWeight"],
     [case |-> "setxattr.file.group", variant |-> "StringEvaluator", reg |-> FALSE, obj |-> "*Event", attr |-> "SetXAttr.File.FileFields.Group", int |-> FALSE, weight |-> "HandlerWeight"],
     [case |-> "setxattr.file.inode", variant |-> "IntEvaluator", reg |-> FALSE, obj |-> "*Event", attr |-> "SetXAttr.File.FileFields.Inode", int |-> TRUE, weight |-> "FunctionWeight"],
     [case |-> "setxattr.file.mode", variant |-> "IntEvaluator", reg |-> FALSE, obj |-> "*Event", attr |-> "SetXAttr.File.FileFields.Mode", int |-> TRUE, weight |-> "FunctionWeight"],
     [case |-> "setxattr.file.mount_id", variant |-> "IntEvaluator", reg |-> FALSE, obj |-> "*Event", attr |-> "SetXAttr.File.FileFields.MountID", int |-> TRUE, weight |-> "FunctionWeight"],
     [case |-> "setxattr.file.name", variant |-> "StringEvaluator", reg |-> FALSE, obj |-> "*Event", attr |-> "SetXAttr.File.BasenameStr", int |-> FALSE, weight |-> "HandlerWeight"],
     [case |-> "setxattr.file.overlay_numlower", variant |-> "IntEvaluator", reg |-> FALSE, obj |-> "*Event", attr |-> "SetXAttr.File.FileFields.OverlayNumLower", int |-> TRUE, weight |-> "FunctionWeight"],
     [case |-> "setxattr.file.path", variant |-> "StringEvaluator", reg |-> FALSE, obj |-> "*Event", attr |-> "SetXAttr.File.PathnameStr", int |-> FALSE, weight |-> "HandlerWeight"],
     [case |-> "setxattr.file.uid", variant |-> "IntEvaluator", reg |-> FALSE, obj |-> "*Event", attr |-> "SetXAttr.File.FileFields.UID", int |-> TRUE, weight |-> "FunctionWeight"],
     [case |-> "setxattr.file.user", variant |-> "StringEvaluator", reg |-> FALSE, obj |-> "*Event", attr |-> "SetXAttr.File.FileFields.User", int |-> FALSE, weight |-> "HandlerWeight"],
     [case |-> "setxattr.retval", variant |-> "IntEvaluator", reg |-> FALSE, obj |-> "*Event", attr |-> "SetXAttr.SyscallEvent.Retval", int |-> TRUE, weight |-> "FunctionWeight"],
     [case |-> "unlink.file.container_path", variant |-> "StringEvaluator", reg |-> FALSE, obj |-> "*Event", attr |-> "Unlink.File.ContainerPath", int |-> FALSE, weight |-> "HandlerWeight"],
     [case |-> "unlink.file.gid", variant |-> "IntEvaluator", reg |-> FALSE, obj |-> "*Event", attr |-> "Unlink.File.FileFields.GID", int |-> TRUE, weight |-> "FunctionWeight"],
     [case |-> "unlink.file.group", variant |-> "StringEvaluator", reg |-> FALSE, obj |-> "*Event", attr |-> "Unlink.File.FileFields.Group", int |-> FALSE, weight |-> "HandlerWeight"],
     [case |-> "unlink.file.inode", variant |-> "IntEvaluator", reg |-> FALSE, obj |-> "*Event", attr |-> "Unlink.File.FileFields.Inode", int |-> TRUE, weight |-> "FunctionWeight"],
     [case |-> "unlink.file.mode", variant |-> "IntEvaluator", reg |-> FALSE, obj |-> "*Event", attr |-> "Unlink.File.FileFields.Mode", int |-> TRUE, weight |-> "FunctionWeight"],
     [case |-> "unlink.file.mount_id", variant |-> "IntEvaluator", reg |-> FALSE, obj |-> "*Event", attr |-> "Unlink.File.FileFields.MountID", int |-> TRUE, weight |-> "FunctionWeight"],
     [case |-> "unlink.file.name", variant |-> "StringEvaluator", reg |-> FALSE, obj |-> "*Event", attr |-> "Unlink.File.BasenameStr", int |-> FALSE, weight |-> "HandlerWeight"],
     [case |-> "unlink.file.overlay_numlower", variant |-> "IntEvaluator", reg |-> FALSE, obj |-> "*Event", attr |-> "Unlink.File.FileFields.OverlayNumLower", int |-> TRUE, weight |-> "FunctionWeight"],
     [case |-> "unlink.file.path", variant |-> "StringEvaluator", reg |-> FALSE, obj |-> "*Event", attr |-> "Unlink.File.PathnameStr", int |-> FALSE, weight |-> "HandlerWeight"],
     [case |-> "unlink.file.uid", variant |-> "IntEvaluator", reg |-> FALSE, obj |-> "*Event", attr |-> "Unlink.File.FileFields.UID", int |-> TRUE, weight |-> "FunctionWeight"],
     [case |-> "unlink.file.user", variant |-> "StringEvaluator", reg |-> FALSE, obj |-> "*Event", attr |-> "Unlink.File.FileFields.User", int |-> FALSE, weight |-> "HandlerWeight"],
     [case |-> "unlink.retval", variant |-> "IntEvaluator", reg |-> FALSE, obj |-> "*Event", attr |-> "Unlink.SyscallEvent.Retval", int |-> TRUE, weight |-> "FunctionWeight"],
     [case |-> "utimes.file.container_path", variant |-> "StringEvaluator", reg |-> FALSE, obj |-> "*Event", attr |-> "Utimes.File.ContainerPath", int |-> FALSE, weight |-> "HandlerWeight"],
     [case |-> "utimes.file.gid", variant |-> "IntEvaluator", reg |-> FALSE, obj |-> "*Event", attr |-> "Utimes.File.FileFields.GID", int |-> TRUE, weight |-> "FunctionWeight"],
     [case |-> "utimes.file.group", variant |-> "StringEvaluator", reg |-> FALSE, obj |-> "*Event", attr |-> "Utimes.File.FileFields.Group", int |-> FALSE, weight |-> "HandlerWeight"],
     [case |-> "utimes.file.inode", variant |-> "IntEvaluator", reg |-> FALSE, obj |-> "*Event", attr |-> "Utimes.File.FileFields.Inode", int |-> TRUE, weight |-> "FunctionWeight"],
     [case |-> "utimes.file.mode", variant |-> "IntEvaluator", reg |-> FALSE, obj |-> "*Event", attr |-> "Utimes.File.FileFields.Mode", int |-> TRUE, weight |-> "FunctionWeight"],
     [case |-> "utimes.file.mount_id", variant |-> "IntEvaluator", reg |-> FALSE, obj |-> "*Event", attr |-> "Utimes.File.FileFields.MountID", int |-> TRUE, weight |-> "FunctionWeight"],
     [case |-> "utimes.file.name", variant |-> "StringEvaluator", reg |-> FALSE, obj |-> "*Event", attr |-> "Utimes.File.BasenameStr", int |-> FALSE, weight |-> "HandlerWeight"],
     [case |-> "utimes.file.overlay_numlower", variant |-> "IntEvaluator", reg |-> FALSE, obj |-> "*Event", attr |-> "Utimes.File.FileFields.OverlayNumLower", int |-> TRUE, weight |-> "FunctionWeight"],
     [case |-> "utimes.file.path", variant |-> "StringEvaluator", reg |-> FALSE, obj |-> "*Event", attr |-> "Utimes.File.PathnameStr", int |-> FALSE, weight |-> "HandlerWeight"],
     [case |-> "utimes.file.uid", variant |-> "IntEvaluator", reg |-> FALSE, obj |-> "*Event", attr |-> "Utimes.File.FileFields.UID", int |-> TRUE, weight |-> "FunctionWeight"],
     [case |-> "utimes.file.user", variant |-> "StringEvaluator", reg |-> FALSE, obj |-> "*Event", attr |-> "Utimes.File.FileFields.User", int |-> FALSE, weight |-> "HandlerWeight"],
     [case |-> "utimes.retval", variant |-> "IntEvaluator", reg |-> FALSE, obj |-> "*Event", attr |-> "Utimes.SyscallEvent.Retval", int |-> TRUE, weight |-> "FunctionWeight"] >>

(* Event.GetFieldValue: one record per case. iterator: the iterator driven
   ("" for a direct read); attr: the selector read (of e, or of the element) *)
GetFieldValueCases ==
  << [case |-> "capset.cap_effective", iterator |-> "", attr |-> "Capset.CapEffective", int |-> TRUE],
     [case |-> "capset.cap_permitted", iterator |-> "", attr |-> "Capset.CapPermitted", int |-> TRUE],
     [case |-> "chmod.file.container_path", iterator |-> "", attr |-> "Chmod.File.ContainerPath", int |-> FALSE],
     [case |-> "chmod.file.destination.mode", iterator |-> "", attr |-> "Chmod.Mode", int |-> TRUE],
     [case |-> "chmod.file.gid", iterator |-> "", attr |-> "Chmod.File.FileFields.GID", int |-> TRUE],
     [case |-> "chmod.file.group", iterator |-> "", attr |-> "Chmod.File.FileFields.Group", int |-> FALSE],
     [case |-> "chmod.file.inode", iterator |-> "", attr |-> "Chmod.File.FileFields.Inode", int |-> TRUE],
     [case |-> "chmod.file.mode", iterator |-> "", attr |-> "Chmod.File.FileFields.Mode", int |-> TRUE],
     [case |-> "chmod.file.mount_id", iterator |-> "", attr |-> "Chmod.File.FileFields.MountID", int |-> TRUE],
     [case |-> "chmod.file.name", iterator |-> "", attr |-> "Chmod.File.BasenameStr", int |-> FALSE],
     [case |-> "chmod.file.overlay_numlower", iterator |-> "", attr |-> "Chmod.File.FileFields.OverlayNumLower", int |-> TRUE],
     [case |-> "chmod.file.path", iterator |-> "", attr |-> "Chmod.File.PathnameStr", int |-> FALSE],
     [case |-> "chmod.file.uid", iterator |-> "", attr |-> "Chmod.File.FileFields.UID", int |-> TRUE],
     [case |-> "chmod.file.user", iterator |-> "", attr |-> "Chmod.File.FileFields.User", int |-> FALSE],
     [case |-> "chmod.retval", iterator |-> "", attr |-> "Chmod.SyscallEvent.Retval", int |-> TRUE],
     [case |-> "chown.file.container_path", iterator |-> "", attr |-> "Chown.File.ContainerPath", int |-> FALSE],
     [case |-> "chown.file.destination.gid", iterator |-> "", attr |-> "Chown.GID", int |-> TRUE],
     [case |-> "chown.file.destination.group", iterator |-> "", attr |-> "Chown.Group", int |-> FALSE],
     [case |-> "chown.file.destination.uid", iterator |-> "", attr |-> "Chown.UID", int |-> TRUE],
     [case |-> "chown.file.destination.user", iterator |-> "", attr |-> "Chown.User", int |-> FALSE],
     [case |-> "chown.file.gid", iterator |-> "", attr |-> "Chown.File.FileFields.GID", int |-> TRUE],
     [case |-> "chown.file.group", iterator |-> "", attr |-> "Chown.File.FileFields.Group", int |-> FALSE],
     [case |-> "chown.file.inode", iterator |-> "", attr |-> "Chown.File.FileFields.Inode", int |-> TRUE],
     [case |-> "chown.file.mode", iterator |-> "", attr |-> "Chown.File.FileFields.Mode", int |-> TRUE],
     [case |-> "chown.file.mount_id", iterator |-> "", attr |-> "Chown.File.FileFields.MountID", int |-> TRUE],
     [case |-> "chown.file.name", iterator |-> "", attr |-> "Chown.File.BasenameStr", int |-> FALSE],
     [case |-> "chown.file.overlay_numlower", iterator |-> "", attr |-> "Chown.File.FileFields.OverlayNumLower", int |-> TRUE],
     [case |-> "chown.file.path", iterator |-> "", attr |-> "Chown.File.PathnameStr", int |-> FALSE],
     [case |-> "chown.file.uid", iterator |-> "", attr |-> "Chown.File.FileFields.UID", int |-> TRUE],
     [case |-> "chown.file.user", iterator |-> "", attr |-> "Chown.File.FileFields.User", int |-> FALSE],
     [case |-> "chown.retval", iterator |-> "", attr |-> "Chown.SyscallEvent.Retval", int |-> TRUE],
     [case |-> "container.id", iterator |-> "", attr |-> "ContainerContext.ID", int |-> FALSE],
     [case |-> "exec.args", iterator |-> "ExecArgsIterator", attr |-> "", int |-> FALSE],
     [case |-> "exec.args_truncated", iterator |-> "", attr |-> "Exec.ArgsTruncated", int |-> FALSE],
     [case |-> "exec.cap_effective", iterator |-> "", attr |-> "Exec.Process.Credentials.CapEffective", int |-> TRUE],
     [case |-> "exec.cap_permitted", iterator |-> "", attr |-> "Exec.Process.Credentials.CapPermitted", int |-> TRUE],
     [case |-> "exec.comm", iterator |-> "", attr |-> "Exec.Process.Comm", int |-> FALSE],
     [case |-> "exec.cookie", iterator |-> "", attr |-> "Exec.Process.Cookie", int |-> TRUE],
     [case |-> "exec.egid", iterator |-> "", attr |-> "Exec.Process.Credentials.EGID", int |-> TRUE],
     [case |-> "exec.egroup", iterator |-> "", attr |-> "Exec.Process.Credentials.EGroup", int |-> FALSE],
     [case |-> "exec.envs", iterator |-> "ExecEnvsIterator", attr |-> "", int |-> FALSE],
     [case |-> "exec.envs_truncated", iterator |-> "", attr |-> "Exec.EnvsTruncated", int |-> FALSE],
     [case |-> "exec.euid", iterator |-> "", attr |-> "Exec.Process.Credentials.EUID", int |-> TRUE],
     [case |-> "exec.euser", iterator |-> "", attr |-> "Exec.Process.Credentials.EUser", int |-> FALSE],
     [case |-> "exec.file.container_path", iterator |-> "", attr |-> "Exec.Process.ContainerPath", int |-> FALSE],
     [case |-> "exec.file.gid", iterator |-> "", attr |-> "Exec.Process.FileFields.GID", int |-> TRUE],
     [case |-> "exec.file.group", iterator |-> "", attr |-> "Exec.Process.FileFields.Group", int |-> FALSE],
     [case |-> "exec.file.inode", iterator |-> "", attr |-> "Exec.Process.FileFields.Inode", int |-> TRUE],
     [case |-> "exec.file.mode", iterator |-> "", attr |-> "Exec.Process.FileFields.Mode", int |-> TRUE],
     [case |-> "exec.file.mount_id", iterator |-> "", attr |-> "Exec.Process.FileFields.MountID", int |-> TRUE],
     [case |-> "exec.file.name", iterator |-> "", attr |-> "Exec.Process.BasenameStr", int |-> FALSE],
     [case |-> "exec.file.overlay_numlower", iterator |-> "", attr |-> "Exec.Process.FileFields.OverlayNumLower", int |-> TRUE],
     [case |-> "exec.file.path", iterator |-> "", attr |-> "Exec.Process.PathnameStr", int |-> FALSE],
     [case |-> "exec.file.uid", iterator |-> "", attr |-> "Exec.Process.FileFields.UID", int |-> TRUE],
     [case |-> "exec.file.user", iterator |-> "", attr |-> "Exec.Process.FileFields.User", int |-> FALSE],
     [case |-> "exec.fsgid", iterator |-> "", attr |-> "Exec.Process.Credentials.FSGID", int |-> TRUE],
     [case |-> "exec.fsgroup", iterator |-> "", attr |-> "Exec.Process.Credentials.FSGroup", int |-> FALSE],
     [case |-> "exec.fsuid", iterator |-> "", attr |-> "Exec.Process.Credentials.FSUID", int |-> TRUE],
     [case |-> "exec.fsuser", iterator |-> "", attr |-> "Exec.Process.Credentials.FSUser", int |-> FALSE],
     [case |-> "exec.gid", iterator |-> "", attr |-> "Exec.Process.Credentials.GID", int |-> TRUE],
     [case |-> "exec.group", iterator |-> "", attr |-> "Exec.Process.Credentials.Group", int |-> FALSE],
     [case |-> "exec.ppid", iterator |-> "", attr |-> "Exec.Process.PPid", int |-> TRUE],
     [case |-> "exec.tty_name", iterator |-> "", attr |-> "Exec.Process.TTYName", int |-> FALSE],
     [case |-> "exec.uid", iterator |-> "", attr |-> "Exec.Process.Credentials.UID", int |-> TRUE],
     [case |-> "exec.user", iterator |-> "", attr |-> "Exec.Process.Credentials.User", int |-> FALSE],
     [case |-> "link.file.container_path", iterator |-> "", attr |-> "Link.Source.ContainerPath", int |-> FALSE],
     [case |-> "link.file.destination.container_path", iterator |-> "", attr |-> "Link.Target.ContainerPath", int |-> FALSE],
     [case |-> "link.file.destination.gid", iterator |-> "", attr |-> "Link.Target.FileFields.GID", int |-> TRUE],
     [case |-> "link.file.destination.group", iterator |-> "", attr |-> "Link.Target.FileFields.Group", int |-> FALSE],
     [case |-> "link.file.destination.inode", iterator |-> "", attr |-> "Link.Target.FileFields.Inode", int |-> TRUE],
     [case |-> "link.file.destination.mode", iterator |-> "", attr |-> "Link.Target.FileFields.Mode", int |-> TRUE],
     [case |-> "link.file.destination.mount_id", iterator |-> "", attr |-> "Link.Target.FileFields.MountID", int |-> TRUE],
     [case |-> "link.file.destination.name", iterator |-> "", attr |-> "Link.Target.BasenameStr", int |-> FALSE],
     [case |-> "link.file.destination.overlay_numlower", iterator |-> "", attr |-> "Link.Target.FileFields.OverlayNumLower", int |-> TRUE],
     [case |-> "link.file.destination.path", iterator |-> "", attr |-> "Link.Target.PathnameStr", int |-> FALSE],
     [case |-> "link.file.destination.uid", iterator |-> "", attr |-> "Link.Target.FileFields.UID", int |-> TRUE],
     [case |-> "link.file.destination.user", iterator |-> "", attr |-> "Link.Target.FileFields.User", int |-> FALSE],
     [case |-> "link.file.gid", iterator |-> "", attr |-> "Link.Source.FileFields.GID", int |-> TRUE],
     [case |-> "link.file.group", iterator |-> "", attr |-> "Link.Source.FileFields.Group", int |-> FALSE],
     [case |-> "link.file.inode", iterator |-> "", attr |-> "Link.Source.FileFields.Inode", int |-> TRUE],
     [case |-> "link.file.mode", iterator |-> "", attr |-> "Link.Source.FileFields.Mode", int |-> TRUE],
     [case |-> "link.file.mount_id", iterator |-> "", attr |-> "Link.Source.FileFields.MountID", int |-> TRUE],
     [case |-> "link.file.name", iterator |-> "", attr |-> "Link.Source.BasenameStr", int |-> FALSE],
     [case |-> "link.file.overlay_numlower", iterator |-> "", attr |-> "Link.Source.FileFields.OverlayNumLower", int |-> TRUE],
     [case |-> "link.file.path", iterator |-> "", attr |-> "Link.Source.PathnameStr", int |-> FALSE],
     [case |-> "link.file.uid", iterator |-> "", attr |-> "Link.Source.FileFields.UID", int |-> TRUE],
     [case |-> "link.file.user", iterator |-> "", attr |-> "Link.Source.FileFields.User", int |-> FALSE],
     [case |-> "link.retval", iterator |-> "", attr |-> "Link.SyscallEvent.Retval", int |-> TRUE],
     [case |-> "mkdir.file.container_path", iterator |-> "", attr |-> "Mkdir.File.ContainerPath", int |-> FALSE],
     [case |-> "mkdir.file.destination.mode", iterator |-> "", attr |-> "Mkdir.Mode", int |-> TRUE],
     [case |-> "mkdir.file.gid", iterator |-> "", attr |-> "Mkdir.File.FileFields.GID", int |-> TRUE],
     [case |-> "mkdir.file.group", iterator |-> "", attr |-> "Mkdir.File.FileFields.Group", int |-> FALSE],
     [case |-> "mkdir.file.inode", iterator |-> "", attr |-> "Mkdir.File.FileFields.Inode", int |-> TRUE],
     [case |-> "mkdir.file.mode", iterator |-> "", attr |-> "Mkdir.File.FileFields.Mode", int |-> TRUE],
     [case |-> "mkdir.file.mount_id", iterator |-> "", attr |-> "Mkdir.File.FileFields.MountID", int |-> TRUE],
     [case |-> "mkdir.file.name", iterator |-> "", attr |-> "Mkdir.File.BasenameStr", int |-> FALSE],
     [case |-> "mkdir.file.overlay_numlower", iterator |-> "", attr |-> "Mkdir.File.FileFields.OverlayNumLower", int |-> TRUE],
     [case |-> "mkdir.file.path", iterator |-> "", attr |-> "Mkdir.File.PathnameStr", int |-> FALSE],
     [case |-> "mkdir.file.uid", iterator |-> "", attr |-> "Mkdir.File.FileFields.UID", int |-> TRUE],
     [case |-> "mkdir.file.user", iterator |-> "", attr |-> "Mkdir.File.FileFields.User", int |-> FALSE],
     [case |-> "mkdir.retval", iterator |-> "", attr |-> "Mkdir.SyscallEvent.Retval", int |-> TRUE],
     [case |-> "open.file.container_path", iterator |-> "", attr |-> "Open.File.ContainerPath", int |-> FALSE],
     [case |-> "open.file.destination.mode", iterator |-> "", attr |-> "Open.Mode", int |-> TRUE],
     [case |-> "open.file.gid", iterator |-> "", attr |-> "Open.File.FileFields.GID", int |-> TRUE],
     [case |-> "open.file.group", iterator |-> "", attr |-> "Open.File.FileFields.Group", int |-> FALSE],
     [case |-> "open.file.inode", iterator |-> "", attr |-> "Open.File.FileFields.Inode", int |-> TRUE],
     [case |-> "open.file.mode", iterator |-> "", attr |-> "Open.File.FileFields.Mode", int |-> TRUE],
     [case |-> "open.file.mount_id", iterator |-> "", attr |-> "Open.File.FileFields.MountID", int |-> TRUE],
     [case |-> "open.file.name", iterator |-> "", attr |-> "Open.File.BasenameStr", int |-> FALSE],
     [case |-> "open.file.overlay_numlower", iterator |-> "", attr |-> "Open.File.FileFields.OverlayNumLower", int |-> TRUE],
     [case |-> "open.file.path", iterator |-> "", attr |-> "Open.File.PathnameStr", int |-> FALSE],
     [case |-> "open.file.uid", iterator |-> "", attr |-> "Open.File.FileFields.UID", int |-> TRUE],
     [case |-> "open.file.user", iterator |-> "", attr |-> "Open.File.FileFields.User", int |-> FALSE],
     [case |-> "open.flags", iterator |-> "", attr |-> "Open.Flags", int |-> TRUE],
     [case |-> "open.retval", iterator |-> "", attr |-> "Open.SyscallEvent.Retval", int |-> TRUE],
     [case |-> "process.ancestors.cap_effective", iterator |-> "ProcessAncestorsIterator", attr |-> "ProcessContext.Process.Credentials.CapEffective", int |-> TRUE],
     [case |-> "process.ancestors.cap_permitted", iterator |-> "ProcessAncestorsIterator", attr |-> "ProcessContext.Process.Credentials.CapPermitted", int |-> TRUE],
     [case |-> "process.ancestors.comm", iterator |-> "ProcessAncestorsIterator", attr |-> "ProcessContext.Process.Comm", int |-> FALSE],
     [case |-> "process.ancestors.cookie", iterator |-> "ProcessAncestorsIterator", attr |-> "ProcessContext.Process.Cookie", int |-> TRUE],
     [case |-> "process.ancestors.egid", iterator |-> "ProcessAncestorsIterator", attr |-> "ProcessContext.Process.Credentials.EGID", int |-> TRUE],
     [case |-> "process.ancestors.egroup", iterator |-> "ProcessAncestorsIterator", attr |-> "ProcessContext.Process.Credentials.EGroup", int |-> FALSE],
     [case |-> "process.ancestors.euid", iterator |-> "ProcessAncestorsIterator", attr |-> "ProcessContext.Process.Credentials.EUID", int |-> TRUE],
     [case |-> "process.ancestors.euser", iterator |-> "ProcessAncestorsIterator", attr |-> "ProcessContext.Process.Credentials.EUser", int |-> FALSE],
     [case |-> "process.ancestors.file.container_path", iterator |-> "ProcessAncestorsIterator", attr |-> "ProcessContext.Process.ContainerPath", int |-> FALSE],
     [case |-> "process.ancestors.file.gid", iterator |-> "ProcessAncestorsIterator", attr |-> "ProcessContext.Process.FileFields.GID", int |-> TRUE],
     [case |-> "process.ancestors.file.group", iterator |-> "ProcessAncestorsIterator", attr |-> "ProcessContext.Process.FileFields.Group", int |-> FALSE],
     [case |-> "process.ancestors.file.inode", iterator |-> "ProcessAncestorsIterator", attr |-> "ProcessContext.Process.FileFields.Inode", int |-> TRUE],
     [case |-> "process.ancestors.file.mode", iterator |-> "ProcessAncestorsIterator", attr |-> "ProcessContext.Process.FileFields.Mode", int |-> TRUE],
     [case |-> "process.ancestors.file.mount_id", iterator |-> "ProcessAncestorsIterator", attr |-> "ProcessContext.Process.FileFields.MountID", int |-> TRUE],
     [case |-> "process.ancestors.file.name", iterator |-> "ProcessAncestorsIterator", attr |-> "ProcessContext.Process.BasenameStr", int |-> FALSE],
     [case |-> "process.ancestors.file.overlay_numlower", iterator |-> "ProcessAncestorsIterator", attr |-> "ProcessContext.Process.FileFields.OverlayNumLower", int |-> TRUE],
     [case |-> "process.ancestors.file.path", iterator |-> "ProcessAncestorsIterator", attr |-> "ProcessContext.Process.PathnameStr", int |-> FALSE],
     [case |-> "process.ancestors.file.uid", iterator |-> "ProcessAncestorsIterator", attr |-> "ProcessContext.Process.FileFields.UID", int |-> TRUE],
     [case |-> "process.ancestors.file.user", iterator |-> "ProcessAncestorsIterator", attr |-> "ProcessContext.Process.FileFields.User", int |-> FALSE],
     [case |-> "process.ancestors.fsgid", iterator |-> "ProcessAncestorsIterator", attr |-> "ProcessContext.Process.Credentials.FSGID", int |-> TRUE],
     [case |-> "process.ancestors.fsgroup", iterator |-> "ProcessAncestorsIterator", attr |-> "ProcessContext.Process.Credentials.FSGroup", int |-> FALSE],
     [case |-> "process.ancestors.fsuid", iterator |-> "ProcessAncestorsIterator", attr |-> "ProcessContext.Process.Credentials.FSUID", int |-> TRUE],
     [case |-> "process.ancestors.fsuser", iterator |-> "ProcessAncestorsIterator", attr |-> "ProcessContext.Process.Credentials.FSUser", int |-> FALSE],
     [case |-> "process.ancestors.gid", iterator |-> "ProcessAncestorsIterator", attr |-> "ProcessContext.Process.Credentials.GID", int |-> TRUE],
     [case |-> "process.ancestors.group", iterator |-> "ProcessAncestorsIterator", attr |-> "ProcessContext.Process.Credentials.Group", int |-> FALSE],
     [case |-> "process.ancestors.id", iterator |-> "ProcessAncestorsIterator", attr |-> "ContainerContext.ID", int |-> FALSE],
     [case |-> "process.ancestors.pid", iterator |-> "ProcessAncestorsIterator", attr |-> "ProcessContext.Pid", int |-> TRUE],
     [case |-> "process.ancestors.ppid", iterator |-> "ProcessAncestorsIterator", attr |-> "ProcessContext.Process.PPid", int |-> TRUE],
     [case |-> "process.ancestors.tid", iterator |-> "ProcessAncestorsIterator", attr |-> "ProcessContext.Tid", int |-> TRUE],
     [case |-> "process.ancestors.tty_name", iterator |-> "ProcessAncestorsIterator", attr |-> "ProcessContext.Process.TTYName", int |-> FALSE],
     [case |-> "process.ancestors.uid", iterator |-> "ProcessAncestorsIterator", attr |-> "ProcessContext.Process.Credentials.UID", int |-> TRUE],
     [case |-> "process.ancestors.user", iterator |-> "ProcessAncestorsIterator", attr |-> "ProcessContext.Process.Credentials.User", int |-> FALSE],
     [case |-> "process.cap_effective", iterator |-> "", attr |-> "ProcessContext.Process.Credentials.CapEffective", int |-> TRUE],
     [case |-> "process.cap_permitted", iterator |-> "", attr |-> "ProcessContext.Process.Credentials.CapPermitted", int |-> TRUE],
     [case |-> "process.comm", iterator |-> "", attr |-> "ProcessContext.Process.Comm", int |-> FALSE],
     [case |-> "process.cookie", iterator |-> "", attr |-> "ProcessContext.Process.Cookie", int |-> TRUE],
     [case |-> "process.egid", iterator |-> "", attr |-> "ProcessContext.Process.Credentials.EGID", int |-> TRUE],
     [case |-> "process.egroup", iterator |-> "", attr |-> "ProcessContext.Process.Credentials.EGroup", int |-> FALSE],
     [case |-> "process.euid", iterator |-> "", attr |-> "ProcessContext.Process.Credentials.EUID", int |-> TRUE],
     [case |-> "process.euser", iterator |-> "", attr |-> "ProcessContext.Process.Credentials.EUser", int |-> FALSE],
     [case |-> "process.file.container_path", iterator |-> "", attr |-> "ProcessContext.Process.ContainerPath", int |-> FALSE],
     [case |-> "process.file.gid", iterator |-> "", attr |-> "ProcessContext.Process.FileFields.GID", int |-> TRUE],
     [case |-> "process.file.group", iterator |-> "", attr |-> "ProcessContext.Process.FileFields.Group", int |-> FALSE],
     [case |-> "process.file.inode", iterator |-> "", attr |-> "ProcessContext.Process.FileFields.Inode", int |-> TRUE],
     [case |-> "process.file.mode", iterator |-> "", attr |-> "ProcessContext.Process.FileFields.Mode", int |-> TRUE],
     [case |-> "process.file.mount_id", iterator |-> "", attr |-> "ProcessContext.Process.FileFields.MountID", int |-> TRUE],
     [case |-> "process.file.name", iterator |-> "", attr |-> "ProcessContext.Process.BasenameStr", int |-> FALSE],
     [case |-> "process.file.overlay_numlower", iterator |-> "", attr |-> "ProcessContext.Process.FileFields.OverlayNumLower", int |-> TRUE],
     [case |-> "process.file.path", iterator |-> "", attr |-> "ProcessContext.Process.PathnameStr", int |-> FALSE],
     [case |-> "process.file.uid", iterator |-> "", attr |-> "ProcessContext.Process.FileFields.UID", int |-> TRUE],
     [case |-> "process.file.user", iterator |-> "", attr |-> "ProcessContext.Process.FileFields.User", int |-> FALSE],
     [case |-> "process.fsgid", iterator |-> "", attr |-> "ProcessContext.Process.Credentials.FSGID", int |-> TRUE],
     [case |-> "process.fsgroup", iterator |-> "", attr |-> "ProcessContext.Process.Credentials.FSGroup", int |-> FALSE],
     [case |-> "process.fsuid", iterator |-> "", attr |-> "ProcessContext.Process.Credentials.FSUID", int |-> TRUE],
     [case |-> "process.fsuser", iterator |-> "", attr |-> "ProcessContext.Process.Credentials.FSUser", int |-> FALSE],
     [case |-> "process.gid", iterator |-> "", attr |-> "ProcessContext.Process.Credentials.GID", int |-> TRUE],
     [case |-> "process.group", iterator |-> "", attr |-> "ProcessContext.Process.Credentials.Group", int |-> FALSE],
     [case |-> "process.pid", iterator |-> "", attr |-> "ProcessContext.Pid", int |-> TRUE],
     [case |-> "process.ppid", iterator |-> "", attr |-> "ProcessContext.Process.PPid", int |-> TRUE],
     [case |-> "process.tid", iterator |-> "", attr |-> "ProcessContext.Tid", int |-> TRUE],
     [case |-> "process.tty_name", iterator |-> "", attr |-> "ProcessContext.Process.TTYName", int |-> FALSE],
     [case |-> "process.uid", iterator |-> "", attr |-> "ProcessContext.Process.Credentials.UID", int |-> TRUE],
     [case |-> "process.user", iterator |-> "", attr |-> "ProcessContext.Process.Credentials.User", int |-> FALSE],
     [case |-> "removexattr.file.container_path", iterator |-> "", attr |-> "RemoveXAttr.File.ContainerPath", int |-> FALSE],
     [case |-> "removexattr.file.destination.name", iterator |-> "", attr |-> "RemoveXAttr.Name", int |-> FALSE],
     [case |-> "removexattr.file.destination.namespace", iterator |-> "", attr |-> "RemoveXAttr.Namespace", int |-> FALSE],
     [case |-> "removexattr.file.gid", iterator |-> "", attr |-> "RemoveXAttr.File.FileFields.GID", int |-> TRUE],
     [case |-> "removexattr.file.group", iterator |-> "", attr |-> "RemoveXAttr.File.FileFields.Group", int |-> FALSE],
     [case |-> "removexattr.file.inode", iterator |-> "", attr |-> "RemoveXAttr.File.FileFields.Inode", int |-> TRUE],
     [case |-> "removexattr.file.mode", iterator |-> "", attr |-> "RemoveXAttr.File.FileFields.Mode", int |-> TRUE],
     [case |-> "removexattr.file.mount_id", iterator |-> "", attr |-> "RemoveXAttr.File.FileFields.MountID", int |-> TRUE],
     [case |-> "removexattr.file.name", iterator |-> "", attr |-> "RemoveXAttr.File.BasenameStr", int |-> FALSE],
     [case |-> "removexattr.file.overlay_numlower", iterator |-> "", attr |-> "RemoveXAttr.File.FileFields.OverlayNumLower", int |-> TRUE],
     [case |-> "removexattr.file.path", iterator |-> "", attr |-> "RemoveXAttr.File.PathnameStr", int |-> FALSE],
     [case |-> "removexattr.file.uid", iterator |-> "", attr |-> "RemoveXAttr.File.FileFields.UID", int |-> TRUE],
     [case |-> "removexattr.file.user", iterator |-> "", attr |-> "RemoveXAttr.File.FileFields.User", int |-> FALSE],
     [case |-> "removexattr.retval", iterator |-> "", attr |-> "RemoveXAttr.SyscallEvent.Retval", int |-> TRUE],
     [case |-> "rename.file.container_path", iterator |-> "", attr |-> "Rename.Old.ContainerPath", int |-> FALSE],
     [case |-> "rename.file.destination.container_path", iterator |-> "", attr |-> "Rename.New.ContainerPath", int |-> FALSE],
     [case |-> "rename.file.destination.gid", iterator |-> "", attr |-> "Rename.New.FileFields.GID", int |-> TRUE],
     [case |-> "rename.file.destination.group", iterator |-> "", attr |-> "Rename.New.FileFields.Group", int |-> FALSE],
     [case |-> "rename.file.destination.inode", iterator |-> "", attr |-> "Rename.New.FileFields.Inode", int |-> TRUE],
     [case |-> "rename.file.destination.mode", iterator |-> "", attr |-> "Rename.New.FileFields.Mode", int |-> TRUE],
     [case |-> "rename.file.destination.mount_id", iterator |-> "", attr |-> "Rename.New.FileFields.MountID", int |-> TRUE],
     [case |-> "rename.file.destination.name", iterator |-> "", attr |-> "Rename.New.BasenameStr", int |-> FALSE],
     [case |-> "rename.file.destination.overlay_numlower", iterator |-> "", attr |-> "Rename.New.FileFields.OverlayNumLower", int |-> TRUE],
     [case |-> "rename.file.destination.path", iterator |-> "", attr |-> "Rename.New.PathnameStr", int |-> FALSE],
     [case |-> "rename.file.destination.uid", iterator |-> "", attr |-> "Rename.New.FileFields.UID", int |-> TRUE],
     [case |-> "rename.file.destination.user", iterator |-> "", attr |-> "Rename.New.FileFields.User", int |-> FALSE],
     [case |-> "rename.file.gid", iterator |-> "", attr |-> "Rename.Old.FileFields.GID", int |-> TRUE],
     [case |-> "rename.file.group", iterator |-> "", attr |-> "Rename.Old.FileFields.Group", int |-> FALSE],
     [case |-> "rename.file.inode", iterator |-> "", attr |-> "Rename.Old.FileFields.Inode", int |-> TRUE],
     [case |-> "rename.file.mode", iterator |-> "", attr |-> "Rename.Old.FileFields.Mode", int |-> TRUE],
     [case |-> "rename.file.mount_id", iterator |-> "", attr |-> "Rename.Old.FileFields.MountID", int |-> TRUE],
     [case |-> "rename.file.name", iterator |-> "", attr |-> "Rename.Old.BasenameStr", int |-> FALSE],
     [case |-> "rename.file.overlay_numlower", iterator |-> "", attr |-> "Rename.Old.FileFields.OverlayNumLower", int |-> TRUE],
     [case |-> "rename.file.path", iterator |-> "", attr |-> "Rename.Old.PathnameStr", int |-> FALSE],
     [case |-> "rename.file.uid", iterator |-> "", attr |-> "Rename.Old.FileFields.UID", int |-> TRUE],
     [case |-> "rename.file.user", iterator |-> "", attr |-> "Rename.Old.FileFields.User", int |-> FALSE],
     [case |-> "rename.retval", iterator |-> "", attr |-> "Rename.SyscallEvent.Retval", int |-> TRUE],
     [case |-> "rmdir.file.container_path", iterator |-> "", attr |-> "Rmdir.File.ContainerPath", int |-> FALSE],
     [case |-> "rmdir.file.gid", iterator |-> "", attr |-> "Rmdir.File.FileFields.GID", int |-> TRUE],
     [case |-> "rmdir.file.group", iterator |-> "", attr |-> "Rmdir.File.FileFields.Group", int |-> FALSE],
     [case |-> "rmdir.file.inode", iterator |-> "", attr |-> "Rmdir.File.FileFields.Inode", int |-> TRUE],
     [case |-> "rmdir.file.mode", iterator |-> "", attr |-> "Rmdir.File.FileFields.Mode", int |-> TRUE],
     [case |-> "rmdir.file.mount_id", iterator |-> "", attr |-> "Rmdir.File.FileFields.MountID", int |-> TRUE],
     [case |-> "rmdir.file.name", iterator |-> "", attr |-> "Rmdir.File.BasenameStr", int |-> FALSE],
     [case |-> "rmdir.file.overlay_numlower", iterator |-> "", attr |-> "Rmdir.File.FileFields.OverlayNumLower", int |-> TRUE],
     [case |-> "rmdir.file.path", iterator |-> "", attr |-> "Rmdir.File.PathnameStr", int |-> FALSE],
     [case |-> "rmdir.file.uid", iterator |-> "", attr |-> "Rmdir.File.FileFields.UID", int |-> TRUE],
     [case |-> "rmdir.file.user", iterator |-> "", attr |-> "Rmdir.File.FileFields.User", int |-> FALSE],
     [case |-> "rmdir.retval", iterator |-> "", attr |-> "Rmdir.SyscallEvent.Retval", int |-> TRUE],
     [case |-> "setgid.egid", iterator |-> "", attr |-> "SetGID.EGID", int |-> TRUE],
     [case |-> "setgid.egroup", iterator |-> "", attr |-> "SetGID.EGroup", int |-> FALSE],
     [case |-> "setgid.fsgid", iterator |-> "", attr |-> "SetGID.FSGID", int |-> TRUE],
     [case |-> "setgid.fsgroup", iterator |-> "", attr |-> "SetGID.FSGroup", int |-> FALSE],
     [case |-> "setgid.gid", iterator |-> "", attr |-> "SetGID.GID", int |-> TRUE],
     [case |-> "setgid.group", iterator |-> "", attr |-> "SetGID.Group", int |-> FALSE],
     [case |-> "setuid.euid", iterator |-> "", attr |-> "SetUID.EUID", int |-> TRUE],
     [case |-> "setuid.euser", iterator |-> "", attr |-> "SetUID.EUser", int |-> FALSE],
     [case |-> "setuid.fsuid", iterator |-> "", attr |-> "SetUID.FSUID", int |-> TRUE],
     [case |-> "setuid.fsuser", iterator |-> "", attr |-> "SetUID.FSUser", int |-> FALSE],
     [case |-> "setuid.uid", iterator |-> "", attr |-> "SetUID.UID", int |-> TRUE],
     [case |-> "setuid.user", iterator |-> "", attr |-> "SetUID.User", int |-> FALSE],
     [case |-> "setxattr.file.container_path", iterator |-> "", attr |-> "SetXAttr.File.ContainerPath", int |-> FALSE],
     [case |-> "setxattr.file.destination.name", iterator |-> "", attr |-> "SetXAttr.Name", int |-> FALSE],
     [case |-> "setxattr.file.destination.namespace", iterator |-> "", attr |-> "SetXAttr.Namespace", int |-> FALSE],
     [case |-> "setxattr.file.gid", iterator |-> "", attr |-> "SetXAttr.File.FileFields.GID", int |-> TRUE],
     [case |-> "setxattr.file.group", iterator |-> "", attr |-> "SetXAttr.File.FileFields.Group", int |-> FALSE],
     [case |-> "setxattr.file.inode", iterator |-> "", attr |-> "SetXAttr.File.FileFields.Inode", int |-> TRUE],
     [case |-> "setxattr.file.mode", iterator |-> "", attr |-> "SetXAttr.File.FileFields.Mode", int |-> TRUE],
     [case |-> "setxattr.file.mount_id", iterator |-> "", attr |-> "SetXAttr.File.FileFields.MountID", int |-> TRUE],
     [case |-> "setxattr.file.name", iterator |-> "", attr |-> "SetXAttr.File.BasenameStr", int |-> FALSE],
     [case |-> "setxattr.file.overlay_numlower", iterator |-> "", attr |-> "SetXAttr.File.FileFields.OverlayNumLower", int |-> TRUE],
     [case |-> "setxattr.file.path", iterator |-> "", attr |-> "SetXAttr.File.PathnameStr", int |-> FALSE],
     [case |-> "setxattr.file.uid", iterator |-> "", attr |-> "SetXAttr.File.FileFields.UID", int |-> TRUE],
     [case |-> "setxattr.file.user", iterator |-> "", attr |-> "SetXAttr.File.FileFields.User", int |-> FALSE],
     [case |-> "setxattr.retval", iterator |-> "", attr |-> "SetXAttr.SyscallEvent.Retval", int |-> TRUE],
     [case |-> "unlink.file.container_path", iterator |-> "", attr |-> "Unlink.File.ContainerPath", int |-> FALSE],
     [case |-> "unlink.file.gid", iterator |-> "", attr |-> "Unlink.File.FileFields.GID", int |-> TRUE],
     [case |-> "unlink.file.group", iterator |-> "", attr |-> "Unlink.File.FileFields.Group", int |-> FALSE],
     [case |-> "unlink.file.inode", iterator |-> "", attr |-> "Unlink.File.FileFields.Inode", int |-> TRUE],
     [case |-> "unlink.file.mode", iterator |-> "", attr |-> "Unlink.File.FileFields.Mode", int |-> TRUE],
     [case |-> "unlink.file.mount_id", iterator |-> "", attr |-> "Unlink.File.FileFields.MountID", int |-> TRUE],
     [case |-> "unlink.file.name", iterator |-> "", attr |-> "Unlink.File.BasenameStr", int |-> FALSE],
     [case |-> "unlink.file.overlay_numlower", iterator |-> "", attr |-> "Unlink.File.FileFields.OverlayNumLower", int |-> TRUE],
     [case |-> "unlink.file.path", iterator |-> "", attr |-> "Unlink.File.PathnameStr", int |-> FALSE],
     [case |-> "unlink.file.uid", iterator |-> "", attr |-> "Unlink.File.FileFields.UID", int |-> TRUE],
     [case |-> "unlink.file.user", iterator |-> "", attr |-> "Unlink.File.FileFields.User", int |-> FALSE],
     [case |-> "unlink.retval", iterator |-> "", attr |-> "Unlink.SyscallEvent.Retval", int |-> TRUE],
     [case |-> "utimes.file.container_path", iterator |-> "", attr |-> "Utimes.File.ContainerPath", int |-> FALSE],
     [case |-> "utimes.file.gid", iterator |-> "", attr |-> "Utimes.File.FileFields.GID", int |-> TRUE],
     [case |-> "utimes.file.group", iterator |-> "", attr |-> "Utimes.File.FileFields.Group", int |-> FALSE],
     [case |-> "utimes.file.inode", iterator |-> "", attr |-> "Utimes.File.FileFields.Inode", int |-> TRUE],
     [case |-> "utimes.file.mode", iterator |-> "", attr |-> "Utimes.File.FileFields.Mode", int |-> TRUE],
     [case |-> "utimes.file.mount_id", iterator |-> "", attr |-> "Utimes.File.FileFields.MountID", int |-> TRUE],
     [case |-> "utimes.file.name", iterator |-> "", attr |-> "Utimes.File.BasenameStr", int |-> FALSE],
     [case |-> "utimes.file.overlay_numlower", iterator |-> "", attr |-> "Utimes.File.FileFields.OverlayNumLower", int |-> TRUE],
     [case |-> "utimes.file.path", iterator |-> "", attr |-> "Utimes.File.PathnameStr", int |-> FALSE],
     [case |-> "utimes.file.uid", iterator |-> "", attr |-> "Utimes.File.FileFields.UID", int |-> TRUE],
     [case |-> "utimes.file.user", iterator |-> "", attr |-> "Utimes.File.FileFields.User", int |-> FALSE],
     [case |-> "utimes.retval", iterator |-> "", attr |-> "Utimes.SyscallEvent.Retval", int |-> TRUE] >>

(* a GetFields that lists the fields the Event has a value for: it leaves
   out exec.args once the Event has arguments *)
GetFieldsOfEvent ==
  LET all == [i \in DOMAIN GetFieldValueCases |-> GetFieldValueCases[i].case]
  IN  IF event.attrs["Exec.Args"] = <<>> THEN all
      ELSE SelectSeq(all, LAMBDA f : f # "exec.args")

(* Event.GetFields: the returned slice, in order *)
GetFields ==
  << "capset.cap_effective",
     "capset.cap_permitted",
     "chmod.file.container_path",
     "chmod.file.destination.mode",
     "chmod.file.gid",
     "chmod.file.group",
     "chmod.file.inode",
     "chmod.file.mode",
     "chmod.file.mount_id",
     "chmod.file.name",
     "chmod.file.overlay_numlower",
     "chmod.file.path",
     "chmod.file.uid",
     "chmod.file.user",
     "chmod.retval",
     "chown.file.container_path",
     "chown.file.destination.gid",
     "chown.file.destination.group",
     "chown.file.destination.uid",
     "chown.file.destination.user",
     "chown.file.gid",
     "chown.file.group",
     "chown.file.inode",
     "chown.file.mode",
     "chown.file.mount_id",
     "chown.file.name",
     "chown.file.overlay_numlower",
     "chown.file.path",
     "chown.file.uid",
     "chown.file.user",
     "chown.retval",
     "container.id",
     "exec.args",
     "exec.args_truncated",
     "exec.cap_effective",
     "exec.cap_permitted",
     "exec.comm",
     "exec.cookie",
     "exec.egid",
     "exec.egroup",
     "exec.envs",
     "exec.envs_truncated",
     "exec.euid",
     "exec.euser",
     "exec.file.container_path",
     "exec.file.gid",
     "exec.file.group",
     "exec.file.inode",
     "exec.file.mode",
     "exec.file.mount_id",
     "exec.file.name",
     "exec.file.overlay_numlower",
     "exec.file.path",
     "exec.file.uid",
     "exec.file.user",
     "exec.fsgid",
     "exec.fsgroup",
     "exec.fsuid",
     "exec.fsuser",
     "exec.gid",
     "exec.group",
     "exec.ppid",
     "exec.tty_name",
     "exec.uid",
     "exec.user",
     "link.file.container_path",
     "link.file.destination.container_path",
     "link.file.destination.gid",
     "link.file.destination.group",
     "link.file.destination.inode",
     "link.file.destination.mode",
     "link.file.destination.mount_id",
     "link.file.destination.name",
     "link.file.destination.overlay_numlower",
     "link.file.destination.path",
     "link.file.destination.uid",
     "link.file.destination.user",
     "link.file.gid",
     "link.file.group",
     "link.file.inode",
     "link.file.mode",
     "link.file.mount_id",
     "link.file.name",
     "link.file.overlay_numlower",
     "link.file.path",
     "link.file.uid",
     "link.file.user",
     "link.retval",
     "mkdir.file.container_path",
     "mkdir.file.destination.mode",
     "mkdir.file.gid",
     "mkdir.file.group",
     "mkdir.file.inode",
     "mkdir.file.mode",
     "mkdir.file.mount_id",
     "mkdir.file.name",
     "mkdir.file.overlay_numlower",
     "mkdir.file.path",
     "mkdir.file.uid",
     "mkdir.file.user",
     "mkdir.retval",
     "open.file.container_path",
     "open.file.destination.mode",
     "open.file.gid",
     "open.file.group",
     "open.file.inode",
     "open.file.mode",
     "open.file.mount_id",
     "open.file.name",
     "open.file.overlay_numlower",
     "open.file.path",
     "open.file.uid",
     "open.file.user",
     "open.flags",
     "open.retval",
     "process.ancestors.cap_effective",
     "process.ancestors.cap_permitted",
     "process.ancestors.comm",
     "process.ancestors.cookie",
     "process.ancestors.egid",
     "process.ancestors.egroup",
     "process.ancestors.euid",
     "process.ancestors.euser",
     "process.ancestors.file.container_path",
     "process.ancestors.file.gid",
     "process.ancestors.file.group",
     "process.ancestors.file.inode",
     "process.ancestors.file.mode",
     "process.ancestors.file.mount_id",
     "process.ancestors.file.name",
     "process.ancestors.file.overlay_numlower",
     "process.ancestors.file.path",
     "process.ancestors.file.uid",
     "process.ancestors.file.user",
     "process.ancestors.fsgid",
     "process.ancestors.fsgroup",
     "process.ancestors.fsuid",
     "process.ancestors.fsuser",
     "process.ancestors.gid",
     "process.ancestors.group",
     "process.ancestors.id",
     "process.ancestors.pid",
     "process.ancestors.ppid",
     "process.ancestors.tid",
     "process.ancestors.tty_name",
     "process.ancestors.uid",
     "process.ancestors.user",
     "process.cap_effective",
     "process.cap_permitted",
     "process.comm",
     "process.cookie",
     "process.egid",
     "process.egroup",
     "process.euid",
     "process.euser",
     "process.file.container_path",
     "process.file.gid",
     "process.file.group",
     "process.file.inode",
     "process.file.mode",
     "process.file.mount_id",
     "process.file.name",
     "process.file.overlay_numlower",
     "process.file.path",
     "process.file.uid",
     "process.file.user",
     "process.fsgid",
     "process.fsgroup",
     "process.fsuid",
     "process.fsuser",
     "process.gid",
     "process.group",
     "process.pid",
     "process.ppid",
     "process.tid",
     "process.tty_name",
     "process.uid",
     "process.user",
     "removexattr.file.container_path",
     "removexattr.file.destination.name",
     "removexattr.file.destination.namespace",
     "removexattr.file.gid",
     "removexattr.file.group",
     "removexattr.file.inode",
     "removexattr.file.mode",
     "removexattr.file.mount_id",
     "removexattr.file.name",
     "removexattr.file.overlay_numlower",
     "removexattr.file.path",
     "removexattr.file.uid",
     "removexattr.file.user",
     "removexattr.retval",
     "rename.file.container_path",
     "rename.file.destination.container_path",
     "rename.file.destination.gid",
     "rename.file.destination.group",
     "rename.file.destination.inode",
     "rename.file.destination.mode",
     "rename.file.destination.mount_id",
     "rename.file.destination.name",
     "rename.file.destination.overlay_numlower",
     "rename.file.destination.path",
     "rename.file.destination.uid",
     "rename.file.destination.user",
     "rename.file.gid",
     "rename.file.group",
     "rename.file.inode",
     "rename.file.mode",
     "rename.file.mount_id",
     "rename.file.name",
     "rename.file.overlay_numlower",
     "rename.file.path",
     "rename.file.uid",
     "rename.file.user",
     "rename.retval",
     "rmdir.file.container_path",
     "rmdir.file.gid",
     "rmdir.file.group",
     "rmdir.file.inode",
     "rmdir.file.mode",
     "rmdir.file.mount_id",
     "rmdir.file.name",
     "rmdir.file.overlay_numlower",
     "rmdir.file.path",
     "rmdir.file.uid",
     "rmdir.file.user",
     "rmdir.retval",
     "setgid.egid",
     "setgid.egroup",
     "setgid.fsgid",
     "setgid.fsgroup",
     "setgid.gid",
     "setgid.group",
     "setuid.euid",
     "setuid.euser",
     "setuid.fsuid",
     "setuid.fsuser",
     "setuid.uid",
     "setuid.user",
     "setxattr.file.container_path",
     "setxattr.file.destination.name",
     "setxattr.file.destination.namespace",
     "setxattr.file.gid",
     "setxattr.file.group",
     "setxattr.file.inode",
     "setxattr.file.mode",
     "setxattr.file.mount_id",
     "setxattr.file.name",
     "setxattr.file.overlay_numlower",
     "setxattr.file.path",
     "setxattr.file.uid",
     "setxattr.file.user",
     "setxattr.retval",
     "unlink.file.container_path",
     "unlink.file.gid",
     "unlink.file.group",
     "unlink.file.inode",
     "unlink.file.mode",
     "unlink.file.mount_id",
     "unlink.file.name",
     "unlink.file.overlay_numlower",
     "unlink.file.path",
     "unlink.file.uid",
     "unlink.file.user",
     "unlink.retval",
     "utimes.file.container_path",
     "utimes.file.gid",
     "utimes.file.group",
     "utimes.file.inode",
     "utimes.file.mode",
     "utimes.file.mount_id",
     "utimes.file.name",
     "utimes.file.overlay_numlower",
     "utimes.file.path",
     "utimes.file.uid",
     "utimes.file.user",
     "utimes.retval" >>

(* Event.GetFieldEventType: one record per case *)
GetFieldEventTypeCases ==
  << [case |-> "capset.cap_effective", ret |-> "capset"],
     [case |-> "capset.cap_permitted", ret |-> "capset"],
     [case |-> "chmod.file.container_path", ret |-> "chmod"],
     [case |-> "chmod.file.destination.mode", ret |-> "chmod"],
     [case |-> "chmod.file.gid", ret |-> "chmod"],
     [case |-> "chmod.file.group", ret |-> "chmod"],
     [case |-> "chmod.file.inode", ret |-> "chmod"],
     [case |-> "chmod.file.mode", ret |-> "chmod"],
     [case |-> "chmod.file.mount_id", ret |-> "chmod"],
     [case |-> "chmod.file.name", ret |-> "chmod"],
     [case |-> "chmod.file.overlay_numlower", ret |-> "chmod"],
     [case |-> "chmod.file.path", ret |-> "chmod"],
     [case |-> "chmod.file.uid", ret |-> "chmod"],
     [case |-> "chmod.file.user", ret |-> "chmod"],
     [case |-> "chmod.retval", ret |-> "chmod"],
     [case |-> "chown.file.container_path", ret |-> "chown"],
     [case |-> "chown.file.destination.gid", ret |-> "chown"],
     [case |-> "chown.file.destination.group", ret |-> "chown"],
     [case |-> "chown.file.destination.uid", ret |-> "chown"],
     [case |-> "chown.file.destination.user", ret |-> "chown"],
     [case |-> "chown.file.gid", ret |-> "chown"],
     [case |-> "chown.file.group", ret |-> "chown"],
     [case |-> "chown.file.inode", ret |-> "chown"],
     [case |-> "chown.file.mode", ret |-> "chown"],
     [case |-> "chown.file.mount_id", ret |-> "chown"],
     [case |-> "chown.file.name", ret |-> "chown"],
     [case |-> "chown.file.overlay_numlower", ret |-> "chown"],
     [case |-> "chown.file.path", ret |-> "chown"],
     [case |-> "chown.file.uid", ret |-> "chown"],
     [case |-> "chown.file.user", ret |-> "chown"],
     [case |-> "chown.retval", ret |-> "chown"],
     [case |-> "container.id", ret |-> "*"],
     [case |-> "exec.args", ret |-> "exec"],
     [case |-> "exec.args_truncated", ret |-> "exec"],
     [case |-> "exec.cap_effective", ret |-> "exec"],
     [case |-> "exec.cap_permitted", ret |-> "exec"],
     [case |-> "exec.comm", ret |-> "exec"],
     [case |-> "exec.cookie", ret |-> "exec"],
     [case |-> "exec.egid", ret |-> "exec"],
     [case |-> "exec.egroup", ret |-> "exec"],
     [case |-> "exec.envs", ret |-> "exec"],
     [case |-> "exec.envs_truncated", ret |-> "exec"],
     [case |-> "exec.euid", ret |-> "exec"],
     [case |-> "exec.euser", ret |-> "exec"],
     [case |-> "exec.file.container_path", ret |-> "exec"],
     [case |-> "exec.file.gid", ret |-> "exec"],
     [case |-> "exec.file.group", ret |-> "exec"],
     [case |-> "exec.file.inode", ret |-> "exec"],
     [case |-> "exec.file.mode", ret |-> "exec"],
     [case |-> "exec.file.mount_id", ret |-> "exec"],
     [case |-> "exec.file.name", ret |-> "exec"],
     [case |-> "exec.file.overlay_numlower", ret |-> "exec"],
     [case |-> "exec.file.path", ret |-> "exec"],
     [case |-> "exec.file.uid", ret |-> "exec"],
     [case |-> "exec.file.user", ret |-> "exec"],
     [case |-> "exec.fsgid", ret |-> "exec"],
     [case |-> "exec.fsgroup", ret |-> "exec"],
     [case |-> "exec.fsuid", ret |-> "exec"],
     [case |-> "exec.fsuser", ret |-> "exec"],
     [case |-> "exec.gid", ret |-> "exec"],
     [case |-> "exec.group", ret |-> "exec"],
     [case |-> "exec.ppid", ret |-> "exec"],
     [case |-> "exec.tty_name", ret |-> "exec"],
     [case |-> "exec.uid", ret |-> "exec"],
     [case |-> "exec.user", ret |-> "exec"],
     [case |-> "link.file.container_path", ret |-> "link"],
     [case |-> "link.file.destination.container_path", ret |-> "link"],
     [case |-> "link.file.destination.gid", ret |-> "link"],
     [case |-> "link.file.destination.group", ret |-> "link"],
     [case |-> "link.file.destination.inode", ret |-> "link"],
     [case |-> "link.file.destination.mode", ret |-> "link"],
     [case |-> "link.file.destination.mount_id", ret |-> "link"],
     [case |-> "link.file.destination.name", ret |-> "link"],
     [case |-> "link.file.destination.overlay_numlower", ret |-> "link"],
     [case |-> "link.file.destination.path", ret |-> "link"],
     [case |-> "link.file.destination.uid", ret |-> "link"],
     [case |-> "link.file.destination.user", ret |-> "link"],
     [case |-> "link.file.gid", ret |-> "link"],
     [case |-> "link.file.group", ret |-> "link"],
     [case |-> "link.file.inode", ret |-> "link"],
     [case |-> "link.file.mode", ret |-> "link"],
     [case |-> "link.file.mount_id", ret |-> "link"],
     [case |-> "link.file.name", ret |-> "link"],
     [case |-> "link.file.overlay_numlower", ret |-> "link"],
     [case |-> "link.file.path", ret |-> "link"],
     [case |-> "link.file.uid", ret |-> "link"],
     [case |-> "link.file.user", ret |-> "link"],
     [case |-> "link.retval", ret |-> "link"],
     [case |-> "mkdir.file.container_path", ret |-> "mkdir"],
     [case |-> "mkdir.file.destination.mode", ret |-> "mkdir"],
     [case |-> "mkdir.file.gid", ret |-> "mkdir"],
     [case |-> "mkdir.file.group", ret |-> "mkdir"],
     [case |-> "mkdir.file.inode", ret |-> "mkdir"],
     [case |-> "mkdir.file.mode", ret |-> "mkdir"],
     [case |-> "mkdir.file.mount_id", ret |-> "mkdir"],
     [case |-> "mkdir.file.name", ret |-> "mkdir"],
     [case |-> "mkdir.file.overlay_numlower", ret |-> "mkdir"],
     [case |-> "mkdir.file.path", ret |-> "mkdir"],
     [case |-> "mkdir.file.uid", ret |-> "mkdir"],
     [case |-> "mkdir.file.user", ret |-> "mkdir"],
     [case |-> "mkdir.retval", ret |-> "mkdir"],
     [case |-> "open.file.container_path", ret |-> "open"],
     [case |-> "open.file.destination.mode", ret |-> "open"],
     [case |-> "open.file.gid", ret |-> "open"],
     [case |-> "open.file.group", ret |-> "open"],
     [case |-> "open.file.inode", ret |-> "open"],
     [case |-> "open.file.mode", ret |-> "open"],
     [case |-> "open.file.mount_id", ret |-> "open"],
     [case |-> "open.file.name", ret |-> "open"],
     [case |-> "open.file.overlay_numlower", ret |-> "open"],
     [case |-> "open.file.path", ret |-> "open"],
     [case |-> "open.file.uid", ret |-> "open"],
     [case |-> "open.file.user", ret |-> "open"],
     [case |-> "open.flags", ret |-> "open"],
     [case |-> "open.retval", ret |-> "open"],
     [case |-> "process.ancestors.cap_effective", ret |-> "*"],
     [case |-> "process.ancestors.cap_permitted", ret |-> "*"],
     [case |-> "process.ancestors.comm", ret |-> "*"],
     [case |-> "process.ancestors.cookie", ret |-> "*"],
     [case |-> "process.ancestors.egid", ret |-> "*"],
     [case |-> "process.ancestors.egroup", ret |-> "*"],
     [case |-> "process.ancestors.euid", ret |-> "*"],
     [case |-> "process.ancestors.euser", ret |-> "*"],
     [case |-> "process.ancestors.file.container_path", ret |-> "*"],
     [case |-> "process.ancestors.file.gid", ret |-> "*"],
     [case |-> "process.ancestors.file.group", ret |-> "*"],
     [case |-> "process.ancestors.file.inode", ret |-> "*"],
     [case |-> "process.ancestors.file.mode", ret |-> "*"],
     [case |-> "process.ancestors.file.mount_id", ret |-> "*"],
     [case |-> "process.ancestors.file.name", ret |-> "*"],
     [case |-> "process.ancestors.file.overlay_numlower", ret |-> "*"],
     [case |-> "process.ancestors.file.path", ret |-> "*"],
     [case |-> "process.ancestors.file.uid", ret |-> "*"],
     [case |-> "process.ancestors.file.user", ret |-> "*"],
     [case |-> "process.ancestors.fsgid", ret |-> "*"],
     [case |-> "process.ancestors.fsgroup", ret |-> "*"],
     [case |-> "process.ancestors.fsuid", ret |-> "*"],
     [case |-> "process.ancestors.fsuser", ret |-> "*"],
     [case |-> "process.ancestors.gid", ret |-> "*"],
     [case |-> "process.ancestors.group", ret |-> "*"],
     [case |-> "process.ancestors.id", ret |-> "*"],
     [case |-> "process.ancestors.pid", ret |-> "*"],
     [case |-> "process.ancestors.ppid", ret |-> "*"],
     [case |-> "process.ancestors.tid", ret |-> "*"],
     [case |-> "process.ancestors.tty_name", ret |-> "*"],
     [case |-> "process.ancestors.uid", ret |-> "*"],
     [case |-> "process.ancestors.user", ret |-> "*"],
     [case |-> "process.cap_effective", ret |-> "*"],
     [case |-> "process.cap_permitted", ret |-> "*"],
     [case |-> "process.comm", ret |-> "*"],
     [case |-> "process.cookie", ret |-> "*"],
     [case |-> "process.egid", ret |-> "*"],
     [case |-> "process.egroup", ret |-> "*"],
     [case |-> "process.euid", ret |-> "*"],
     [case |-> "process.euser", ret |-> "*"],
     [case |-> "process.file.container_path", ret |-> "*"],
     [case |-> "process.file.gid", ret |-> "*"],
     [case |-> "process.file.group", ret |-> "*"],
     [case |-> "process.file.inode", ret |-> "*"],
     [case |-> "process.file.mode", ret |-> "*"],
     [case |-> "process.file.mount_id", ret |-> "*"],
     [case |-> "process.file.name", ret |-> "*"],
     [case |-> "process.file.overlay_numlower", ret |-> "*"],
     [case |-> "process.file.path", ret |-> "*"],
     [case |-> "process.file.uid", ret |-> "*"],
     [case |-> "process.file.user", ret |-> "*"],
     [case |-> "process.fsgid", ret |-> "*"],
     [case |-> "process.fsgroup", ret |-> "*"],
     [case |-> "process.fsuid", ret |-> "*"],
     [case |-> "process.fsuser", ret |-> "*"],
     [case |-> "process.gid", ret |-> "*"],
     [case |-> "process.group", ret |-> "*"],
     [case |-> "process.pid", ret |-> "*"],
     [case |-> "process.ppid", ret |-> "*"],
     [case |-> "process.tid", ret |-> "*"],
     [case |-> "process.tty_name", ret |-> "*"],
     [case |-> "process.uid", ret |-> "*"],
     [case |-> "process.user", ret |-> "*"],
     [case |-> "removexattr.file.container_path", ret |-> "removexattr"],
     [case |-> "removexattr.file.destination.name", ret |-> "removexattr"],
     [case |-> "removexattr.file.destination.namespace", ret |-> "removexattr"],
     [case |-> "removexattr.file.gid", ret |-> "removexattr"],
     [case |-> "removexattr.file.group", ret |-> "removexattr"],
     [case |-> "removexattr.file.inode", ret |-> "removexattr"],
     [case |-> "removexattr.file.mode", ret |-> "removexattr"],
     [case |-> "removexattr.file.mount_id", ret |-> "removexattr"],
     [case |-> "removexattr.file.name", ret |-> "removexattr"],
     [case |-> "removexattr.file.overlay_numlower", ret |-> "removexattr"],
     [case |-> "removexattr.file.path", ret |-> "removexattr"],
     [case |-> "removexattr.file.uid", ret |-> "removexattr"],
     [case |-> "removexattr.file.user", ret |-> "removexattr"],
     [case |-> "removexattr.retval", ret |-> "removexattr"],
     [case |-> "rename.file.container_path", ret |-> "rename"],
     [case |-> "rename.file.destination.container_path", ret |-> "rename"],
     [case |-> "rename.file.destination.gid", ret |-> "rename"],
     [case |-> "rename.file.destination.group", ret |-> "rename"],
     [case |-> "rename.file.destination.inode", ret |-> "rename"],
     [case |-> "rename.file.destination.mode", ret |-> "rename"],
     [case |-> "rename.file.destination.mount_id", ret |-> "rename"],
     [case |-> "rename.file.destination.name", ret |-> "rename"],
     [case |-> "rename.file.destination.overlay_numlower", ret |-> "rename"],
     [case |-> "rename.file.destination.path", ret |-> "rename"],
     [case |-> "rename.file.destination.uid", ret |-> "rename"],
     [case |-> "rename.file.destination.user", ret |-> "rename"],
     [case |-> "rename.file.gid", ret |-> "rename"],
     [case |-> "rename.file.group", ret |-> "rename"],
     [case |-> "rename.file.inode", ret |-> "rename"],
     [case |-> "rename.file.mode", ret |-> "rename"],
     [case |-> "rename.file.mount_id", ret |-> "rename"],
     [case |-> "rename.file.name", ret |-> "rename"],
     [case |-> "rename.file.overlay_numlower", ret |-> "rename"],
     [case |-> "rename.file.path", ret |-> "rename"],
     [case |-> "rename.file.uid", ret |-> "rename"],
     [case |-> "rename.file.user", ret |-> "rename"],
     [case |-> "rename.retval", ret |-> "rename"],
     [case |-> "rmdir.file.container_path", ret |-> "rmdir"],
     [case |-> "rmdir.file.gid", ret |-> "rmdir"],
     [case |-> "rmdir.file.group", ret |-> "rmdir"],
     [case |-> "rmdir.file.inode", ret |-> "rmdir"],
     [case |-> "rmdir.file.mode", ret |-> "rmdir"],
     [case |-> "rmdir.file.mount_id", ret |-> "rmdir"],
     [case |-> "rmdir.file.name", ret |-> "rmdir"],
     [case |-> "rmdir.file.overlay_numlower", ret |-> "rmdir"],
     [case |-> "rmdir.file.path", ret |-> "rmdir"],
     [case |-> "rmdir.file.uid", ret |-> "rmdir"],
     [case |-> "rmdir.file.user", ret |-> "rmdir"],
     [case |-> "rmdir.retval", ret |-> "rmdir"],
     [case |-> "setgid.egid", ret |-> "setgid"],
     [case |-> "setgid.egroup", ret |-> "setgid"],
     [case |-> "setgid.fsgid", ret |-> "setgid"],
     [case |-> "setgid.fsgroup", ret |-> "setgid"],
     [case |-> "setgid.gid", ret |-> "setgid"],
     [case |-> "setgid.group", ret |-> "setgid"],
     [case |-> "setuid.euid", ret |-> "setuid"],
     [case |-> "setuid.euser", ret |-> "setuid"],
     [case |-> "setuid.fsuid", ret |-> "setuid"],
     [case |-> "setuid.fsuser", ret |-> "setuid"],
     [case |-> "setuid.uid", ret |-> "setuid"],
     [case |-> "setuid.user", ret |-> "setuid"],
     [case |-> "setxattr.file.container_path", ret |-> "setxattr"],
     [case |-> "setxattr.file.destination.name", ret |-> "setxattr"],
     [case |-> "setxattr.file.destination.namespace", ret |-> "setxattr"],
     [case |-> "setxattr.file.gid", ret |-> "setxattr"],
     [case |-> "setxattr.file.group", ret |-> "setxattr"],
     [case |-> "setxattr.file.inode", ret |-> "setxattr"],
     [case |-> "setxattr.file.mode", ret |-> "setxattr"],
     [case |-> "setxattr.file.mount_id", ret |-> "setxattr"],
     [case |-> "setxattr.file.name", ret |-> "setxattr"],
     [case |-> "setxattr.file.overlay_numlower", ret |-> "setxattr"],
     [case |-> "setxattr.file.path", ret |-> "setxattr"],
     [case |-> "setxattr.file.uid", ret |-> "setxattr"],
     [case |-> "setxattr.file.user", ret |-> "setxattr"],
     [case |-> "setxattr.retval", ret |-> "setxattr"],
     [case |-> "unlink.file.container_path", ret |-> "unlink"],
     [case |-> "unlink.file.gid", ret |-> "unlink"],
     [case |-> "unlink.file.group", ret |-> "unlink"],
     [case |-> "unlink.file.inode", ret |-> "unlink"],
     [case |-> "unlink.file.mode", ret |-> "unlink"],
     [case |-> "unlink.file.mount_id", ret |-> "unlink"],
     [case |-> "unlink.file.name", ret |-> "unlink"],
     [case |-> "unlink.file.overlay_numlower", ret |-> "unlink"],
     [case |-> "unlink.file.path", ret |-> "unlink"],
     [case |-> "unlink.file.uid", ret |-> "unlink"],
     [case |-> "unlink.file.user", ret |-> "unlink"],
     [case |-> "unlink.retval", ret |-> "unlink"],
     [case |-> "utimes.file.container_path", ret |-> "utimes"],
     [case |-> "utimes.file.gid", ret |-> "utimes"],
     [case |-> "utimes.file.group", ret |-> "utimes"],
     [case |-> "utimes.file.inode", ret |-> "utimes"],
     [case |-> "utimes.file.mode", ret |-> "utimes"],
     [case |-> "utimes.file.mount_id", ret |-> "utimes"],
     [case |-> "utimes.file.name", ret |-> "utimes"],
     [case |-> "utimes.file.overlay_numlower", ret |-> "utimes"],
     [case |-> "utimes.file.path", ret |-> "utimes"],
     [case |-> "utimes.file.uid", ret |-> "utimes"],
     [case |-> "utimes.file.user", ret |-> "utimes"],
     [case |-> "utimes.retval", ret |-> "utimes"] >>

(* Event.GetFieldType: one record per case *)
GetFieldTypeCases ==
  << [case |-> "capset.cap_effective", ret |-> "reflect.Int"],
     [case |-> "capset.cap_permitted", ret |-> "reflect.Int"],
     [case |-> "chmod.file.container_path", ret |-> "reflect.String"],
     [case |-> "chmod.file.destination.mode", ret |-> "reflect.Int"],
     [case |-> "chmod.file.gid", ret |-> "reflect.Int"],
     [case |-> "chmod.file.group", ret |-> "reflect.String"],
     [case |-> "chmod.file.inode", ret |-> "reflect.Int"],
     [case |-> "chmod.file.mode", ret |-> "reflect.Int"],
     [case |-> "chmod.file.mount_id", ret |-> "reflect.Int"],
     [case |-> "chmod.file.name", ret |-> "reflect.String"],
     [case |-> "chmod.file.overlay_numlower", ret |-> "reflect.Int"],
     [case |-> "chmod.file.path", ret |-> "reflect.String"],
     [case |-> "chmod.file.uid", ret |-> "reflect.Int"],
     [case |-> "chmod.file.user", ret |-> "reflect.String"],
     [case |-> "chmod.retval", ret |-> "reflect.Int"],
     [case |-> "chown.file.container_path", ret |-> "reflect.String"],
     [case |-> "chown.file.destination.gid", ret |-> "reflect.Int"],
     [case |-> "chown.file.destination.group", ret |-> "reflect.String"],
     [case |-> "chown.file.destination.uid", ret |-> "reflect.Int"],
     [case |-> "chown.file.destination.user", ret |-> "reflect.String"],
     [case |-> "chown.file.gid", ret |-> "reflect.Int"],
     [case |-> "chown.file.group", ret |-> "reflect.String"],
     [case |-> "chown.file.inode", ret |-> "reflect.Int"],
     [case |-> "chown.file.mode", ret |-> "reflect.Int"],
     [case |-> "chown.file.mount_id", ret |-> "reflect.Int"],
     [case |-> "chown.file.name", ret |-> "reflect.String"],
     [case |-> "chown.file.overlay_numlower", ret |-> "reflect.Int"],
     [case |-> "chown.file.path", ret |-> "reflect.String"],
     [case |-> "chown.file.uid", ret |-> "reflect.Int"],
     [case |-> "chown.file.user", ret |-> "reflect.String"],
     [case |-> "chown.retval", ret |-> "reflect.Int"],
     [case |-> "container.id", ret |-> "reflect.String"],
     [case |-> "exec.args", ret |-> "reflect.String"],
     [case |-> "exec.args_truncated", ret |-> "reflect.Bool"],
     [case |-> "exec.cap_effective", ret |-> "reflect.Int"],
     [case |-> "exec.cap_permitted", ret |-> "reflect.Int"],
     [case |-> "exec.comm", ret |-> "reflect.String"],
     [case |-> "exec.cookie", ret |-> "reflect.Int"],
     [case |-> "exec.egid", ret |-> "reflect.Int"],
     [case |-> "exec.egroup", ret |-> "reflect.String"],
     [case |-> "exec.envs", ret |-> "reflect.String"],
     [case |-> "exec.envs_truncated", ret |-> "reflect.Bool"],
     [case |-> "exec.euid", ret |-> "reflect.Int"],
     [case |-> "exec.euser", ret |-> "reflect.String"],
     [case |-> "exec.file.container_path", ret |-> "reflect.String"],
     [case |-> "exec.file.gid", ret |-> "reflect.Int"],
     [case |-> "exec.file.group", ret |-> "reflect.String"],
     [case |-> "exec.file.inode", ret |-> "reflect.Int"],
     [case |-> "exec.file.mode", ret |-> "reflect.Int"],
     [case |-> "exec.file.mount_id", ret |-> "reflect.Int"],
     [case |-> "exec.file.name", ret |-> "reflect.String"],
     [case |-> "exec.file.overlay_numlower", ret |-> "reflect.Int"],
     [case |-> "exec.file.path", ret |-> "reflect.String"],
     [case |-> "exec.file.uid", ret |-> "reflect.Int"],
     [case |-> "exec.file.user", ret |-> "reflect.String"],
     [case |-> "exec.fsgid", ret |-> "reflect.Int"],
     [case |-> "exec.fsgroup", ret |-> "reflect.String"],
     [case |-> "exec.fsuid", ret |-> "reflect.Int"],
     [case |-> "exec.fsuser", ret |-> "reflect.String"],
     [case |-> "exec.gid", ret |-> "reflect.Int"],
     [case |-> "exec.group", ret |-> "reflect.String"],
     [case |-> "exec.ppid", ret |-> "reflect.Int"],
     [case |-> "exec.tty_name", ret |-> "reflect.String"],
     [case |-> "exec.uid", ret |-> "reflect.Int"],
     [case |-> "exec.user", ret |-> "reflect.String"],
     [case |-> "link.file.container_path", ret |-> "reflect.String"],
     [case |-> "link.file.destination.container_path", ret |-> "reflect.String"],
     [case |-> "link.file.destination.gid", ret |-> "reflect.Int"],
     [case |-> "link.file.destination.group", ret |-> "reflect.String"],
     [case |-> "link.file.destination.inode", ret |-> "reflect.Int"],
     [case |-> "link.file.destination.mode", ret |-> "reflect.Int"],
     [case |-> "link.file.destination.mount_id", ret |-> "reflect.Int"],
     [case |-> "link.file.destination.name", ret |-> "reflect.String"],
     [case |-> "link.file.destination.overlay_numlower", ret |-> "reflect.Int"],
     [case |-> "link.file.destination.path", ret |-> "reflect.String"],
     [case |-> "link.file.destination.uid", ret |-> "reflect.Int"],
     [case |-> "link.file.destination.user", ret |-> "reflect.String"],
     [case |-> "link.file.gid", ret |-> "reflect.Int"],
     [case |-> "link.file.group", ret |-> "reflect.String"],
     [case |-> "link.file.inode", ret |-> "reflect.Int"],
     [case |-> "link.file.mode", ret |-> "reflect.Int"],
     [case |-> "link.file.mount_id", ret |-> "reflect.Int"],
     [case |-> "link.file.name", ret |-> "reflect.String"],
     [case |-> "link.file.overlay_numlower", ret |-> "reflect.Int"],
     [case |-> "link.file.path", ret |-> "reflect.String"],
     [case |-> "link.file.uid", ret |-> "reflect.Int"],
     [case |-> "link.file.user", ret |-> "reflect.String"],
     [case |-> "link.retval", ret |-> "reflect.Int"],
     [case |-> "mkdir.file.container_path", ret |-> "reflect.String"],
     [case |-> "mkdir.file.destination.mode", ret |-> "reflect.Int"],
     [case |-> "mkdir.file.gid", ret |-> "reflect.Int"],
     [case |-> "mkdir.file.group", ret |-> "reflect.String"],
     [case |-> "mkdir.file.inode", ret |-> "reflect.Int"],
     [case |-> "mkdir.file.mode", ret |-> "reflect.Int"],
     [case |-> "mkdir.file.mount_id", ret |-> "reflect.Int"],
     [case |-> "mkdir.file.name", ret |-> "reflect.String"],
     [case |-> "mkdir.file.overlay_numlower", ret |-> "reflect.Int"],
     [case |-> "mkdir.file.path", ret |-> "reflect.String"],
     [case |-> "mkdir.file.uid", ret |-> "reflect.Int"],
     [case |-> "mkdir.file.user", ret |-> "reflect.String"],
     [case |-> "mkdir.retval", ret |-> "reflect.Int"],
     [case |-> "open.file.container_path", ret |-> "reflect.String"],
     [case |-> "open.file.destination.mode", ret |-> "reflect.Int"],
     [case |-> "open.file.gid", ret |-> "reflect.Int"],
     [case |-> "open.file.group", ret |-> "reflect.String"],
     [case |-> "open.file.inode", ret |-> "reflect.Int"],
     [case |-> "open.file.mode", ret |-> "reflect.Int"],
     [case |-> "open.file.mount_id", ret |-> "reflect.Int"],
     [case |-> "open.file.name", ret |-> "reflect.String"],
     [case |-> "open.file.overlay_numlower", ret |-> "reflect.Int"],
     [case |-> "open.file.path", ret |-> "reflect.String"],
     [case |-> "open.file.uid", ret |-> "reflect.Int"],
     [case |-> "open.file.user", ret |-> "reflect.String"],
     [case |-> "open.flags", ret |-> "reflect.Int"],
     [case |-> "open.retval", ret |-> "reflect.Int"],
     [case |-> "process.ancestors.cap_effective", ret |-> "reflect.Int"],
     [case |-> "process.ancestors.cap_permitted", ret |-> "reflect.Int"],
     [case |-> "process.ancestors.comm", ret |-> "reflect.String"],
     [case |-> "process.ancestors.cookie", ret |-> "reflect.Int"],
     [case |-> "process.ancestors.egid", ret |-> "reflect.Int"],
     [case |-> "process.ancestors.egroup", ret |-> "reflect.String"],
     [case |-> "process.ancestors.euid", ret |-> "reflect.Int"],
     [case |-> "process.ancestors.euser", ret |-> "reflect.String"],
     [case |-> "process.ancestors.file.container_path", ret |-> "reflect.String"],
     [case |-> "process.ancestors.file.gid", ret |-> "reflect.Int"],
     [case |-> "process.ancestors.file.group", ret |-> "reflect.String"],
     [case |-> "process.ancestors.file.inode", ret |-> "reflect.Int"],
     [case |-> "process.ancestors.file.mode", ret |-> "reflect.Int"],
     [case |-> "process.ancestors.file.mount_id", ret |-> "reflect.Int"],
     [case |-> "process.ancestors.file.name", ret |-> "reflect.String"],
     [case |-> "process.ancestors.file.overlay_numlower", ret |-> "reflect.Int"],
     [case |-> "process.ancestors.file.path", ret |-> "reflect.String"],
     [case |-> "process.ancestors.file.uid", ret |-> "reflect.Int"],
     [case |-> "process.ancestors.file.user", ret |-> "reflect.String"],
     [case |-> "process.ancestors.fsgid", ret |-> "reflect.Int"],
     [case |-> "process.ancestors.fsgroup", ret |-> "reflect.String"],
     [case |-> "process.ancestors.fsuid", ret |-> "reflect.Int"],
     [case |-> "process.ancestors.fsuser", ret |-> "reflect.String"],
     [case |-> "process.ancestors.gid", ret |-> "reflect.Int"],
     [case |-> "process.ancestors.group", ret |-> "reflect.String"],
     [case |-> "process.ancestors.id", ret |-> "reflect.String"],
     [case |-> "process.ancestors.pid", ret |-> "reflect.Int"],
     [case |-> "process.ancestors.ppid", ret |-> "reflect.Int"],
     [case |-> "process.ancestors.tid", ret |-> "reflect.Int"],
     [case |-> "process.ancestors.tty_name", ret |-> "reflect.String"],
     [case |-> "process.ancestors.uid", ret |-> "reflect.Int"],
     [case |-> "process.ancestors.user", ret |-> "reflect.String"],
     [case |-> "process.cap_effective", ret |-> "reflect.Int"],
     [case |-> "process.cap_permitted", ret |-> "reflect.Int"],
     [case |-> "process.comm", ret |-> "reflect.String"],
     [case |-> "process.cookie", ret |-> "reflect.Int"],
     [case |-> "process.egid", ret |-> "reflect.Int"],
     [case |-> "process.egroup", ret |-> "reflect.String"],
     [case |-> "process.euid", ret |-> "reflect.Int"],
     [case |-> "process.euser", ret |-> "reflect.String"],
     [case |-> "process.file.container_path", ret |-> "reflect.String"],
     [case |-> "process.file.gid", ret |-> "reflect.Int"],
     [case |-> "process.file.group", ret |-> "reflect.String"],
     [case |-> "process.file.inode", ret |-> "reflect.Int"],
     [case |-> "process.file.mode", ret |-> "reflect.Int"],
     [case |-> "process.file.mount_id", ret |-> "reflect.Int"],
     [case |-> "process.file.name", ret |-> "reflect.String"],
     [case |-> "process.file.overlay_numlower", ret |-> "reflect.Int"],
     [case |-> "process.file.path", ret |-> "reflect.String"],
     [case |-> "process.file.uid", ret |-> "reflect.Int"],
     [case |-> "process.file.user", ret |-> "reflect.String"],
     [case |-> "process.fsgid", ret |-> "reflect.Int"],
     [case |-> "process.fsgroup", ret |-> "reflect.String"],
     [case |-> "process.fsuid", ret |-> "reflect.Int"],
     [case |-> "process.fsuser", ret |-> "reflect.String"],
     [case |-> "process.gid", ret |-> "reflect.Int"],
     [case |-> "process.group", ret |-> "reflect.String"],
     [case |-> "process.pid", ret |-> "reflect.Int"],
     [case |-> "process.ppid", ret |-> "reflect.Int"],
     [case |-> "process.tid", ret |-> "reflect.Int"],
     [case |-> "process.tty_name", ret |-> "reflect.String"],
     [case |-> "process.uid", ret |-> "reflect.Int"],
     [case |-> "process.user", ret |-> "reflect.String"],
     [case |-> "removexattr.file.container_path", ret |-> "reflect.String"],
     [case |-> "removexattr.file.destination.name", ret |-> "reflect.String"],
     [case |-> "removexattr.file.destination.namespace", ret |-> "reflect.String"],
     [case |-> "removexattr.file.gid", ret |-> "reflect.Int"],
     [case |-> "removexattr.file.group", ret |-> "reflect.String"],
     [case |-> "removexattr.file.inode", ret |-> "reflect.Int"],
     [case |-> "removexattr.file.mode", ret |-> "reflect.Int"],
     [case |-> "removexattr.file.mount_id", ret |-> "reflect.Int"],
     [case |-> "removexattr.file.name", ret |-> "reflect.String"],
     [case |-> "removexattr.file.overlay_numlower", ret |-> "reflect.Int"],
     [case |-> "removexattr.file.path", ret |-> "reflect.String"],
     [case |-> "removexattr.file.uid", ret |-> "reflect.Int"],
     [case |-> "removexattr.file.user", ret |-> "reflect.String"],
     [case |-> "removexattr.retval", ret |-> "reflect.Int"],
     [case |-> "rename.file.container_path", ret |-> "reflect.String"],
     [case |-> "rename.file.destination.container_path", ret |-> "reflect.String"],
     [case |-> "rename.file.destination.gid", ret |-> "reflect.Int"],
     [case |-> "rename.file.destination.group", ret |-> "reflect.String"],
     [case |-> "rename.file.destination.inode", ret |-> "reflect.Int"],
     [case |-> "rename.file.destination.mode", ret |-> "reflect.Int"],
     [case |-> "rename.file.destination.mount_id", ret |-> "reflect.Int"],
     [case |-> "rename.file.destination.name", ret |-> "reflect.String"],
     [case |-> "rename.file.destination.overlay_numlower", ret |-> "reflect.Int"],
     [case |-> "rename.file.destination.path", ret |-> "reflect.String"],
     [case |-> "rename.file.destination.uid", ret |-> "reflect.Int"],
     [case |-> "rename.file.destination.user", ret |-> "reflect.String"],
     [case |-> "rename.file.gid", ret |-> "reflect.Int"],
     [case |-> "rename.file.group", ret |-> "reflect.String"],
     [case |-> "rename.file.inode", ret |-> "reflect.Int"],
     [case |-> "rename.file.mode", ret |-> "reflect.Int"],
     [case |-> "rename.file.mount_id", ret |-> "reflect.Int"],
     [case |-> "rename.file.name", ret |-> "reflect.String"],
     [case |-> "rename.file.overlay_numlower", ret |-> "reflect.Int"],
     [case |-> "rename.file.path", ret |-> "reflect.String"],
     [case |-> "rename.file.uid", ret |-> "reflect.Int"],
     [case |-> "rename.file.user", ret |-> "reflect.String"],
     [case |-> "rename.retval", ret |-> "reflect.Int"],
     [case |-> "rmdir.file.container_path", ret |-> "reflect.String"],
     [case |-> "rmdir.file.gid", ret |-> "reflect.Int"],
     [case |-> "rmdir.file.group", ret |-> "reflect.String"],
     [case |-> "rmdir.file.inode", ret |-> "reflect.Int"],
     [case |-> "rmdir.file.mode", ret |-> "reflect.Int"],
     [case |-> "rmdir.file.mount_id", ret |-> "reflect.Int"],
     [case |-> "rmdir.file.name", ret |-> "reflect.String"],
     [case |-> "rmdir.file.overlay_numlower", ret |-> "reflect.Int"],
     [case |-> "rmdir.file.path", ret |-> "reflect.String"],
     [case |-> "rmdir.file.uid", ret |-> "reflect.Int"],
     [case |-> "rmdir.file.user", ret |-> "reflect.String"],
     [case |-> "rmdir.retval", ret |-> "reflect.Int"],
     [case |-> "setgid.egid", ret |-> "reflect.Int"],
     [case |-> "setgid.egroup", ret |-> "reflect.String"],
     [case |-> "setgid.fsgid", ret |-> "reflect.Int"],
     [case |-> "setgid.fsgroup", ret |-> "reflect.String"],
     [case |-> "setgid.gid", ret |-> "reflect.Int"],
     [case |-> "setgid.group", ret |-> "reflect.String"],
     [case |-> "setuid.euid", ret |-> "reflect.Int"],
     [case |-> "setuid.euser", ret |-> "reflect.String"],
     [case |-> "setuid.fsuid", ret |-> "reflect.Int"],
     [case |-> "setuid.fsuser", ret |-> "reflect.String"],
     [case |-> "setuid.uid", ret |-> "reflect.Int"],
     [case |-> "setuid.user", ret |-> "reflect.String"],
     [case |-> "setxattr.file.container_path", ret |-> "reflect.String"],
     [case |-> "setxattr.file.destination.name", ret |-> "reflect.String"],
     [case |-> "setxattr.file.destination.namespace", ret |-> "reflect.String"],
     [case |-> "setxattr.file.gid", ret |-> "reflect.Int"],
     [case |-> "setxattr.file.group", ret |-> "reflect.String"],
     [case |-> "setxattr.file.inode", ret |-> "reflect.Int"],
     [case |-> "setxattr.file.mode", ret |-> "reflect.Int"],
     [case |-> "setxattr.file.mount_id", ret |-> "reflect.Int"],
     [case |-> "setxattr.file.name", ret |-> "reflect.String"],
     [case |-> "setxattr.file.overlay_numlower", ret |-> "reflect.Int"],
     [case |-> "setxattr.file.path", ret |-> "reflect.String"],
     [case |-> "setxattr.file.uid", ret |-> "reflect.Int"],
     [case |-> "setxattr.file.user", ret |-> "reflect.String"],
     [case |-> "setxattr.retval", ret |-> "reflect.Int"],
     [case |-> "unlink.file.container_path", ret |-> "reflect.String"],
     [case |-> "unlink.file.gid", ret |-> "reflect.Int"],
     [case |-> "unlink.file.group", ret |-> "reflect.String"],
     [case |-> "unlink.file.inode", ret |-> "reflect.Int"],
     [case |-> "unlink.file.mode", ret |-> "reflect.Int"],
     [case |-> "unlink.file.mount_id", ret |-> "reflect.Int"],
     [case |-> "unlink.file.name", ret |-> "reflect.String"],
     [case |-> "unlink.file.overlay_numlower", ret |-> "reflect.Int"],
     [case |-> "unlink.file.path", ret |-> "reflect.String"],
     [case |-> "unlink.file.uid", ret |-> "reflect.Int"],
     [case |-> "unlink.file.user", ret |-> "reflect.String"],
     [case |-> "unlink.retval", ret |-> "reflect.Int"],
     [case |-> "utimes.file.container_path", ret |-> "reflect.String"],
     [case |-> "utimes.file.gid", ret |-> "reflect.Int"],
     [case |-> "utimes.file.group", ret |-> "reflect.String"],
     [case |-> "utimes.file.inode", ret |-> "reflect.Int"],
     [case |-> "utimes.file.mode", ret |-> "reflect.Int"],
     [case |-> "utimes.file.mount_id", ret |-> "reflect.Int"],
     [case |-> "utimes.file.name", ret |-> "reflect.String"],
     [case |-> "utimes.file.overlay_numlower", ret |-> "reflect.Int"],
     [case |-> "utimes.file.path", ret |-> "reflect.String"],
     [case |-> "utimes.file.uid", ret |-> "reflect.Int"],
     [case |-> "utimes.file.user", ret |-> "reflect.String"],
     [case |-> "utimes.retval", ret |-> "reflect.Int"] >>

(* Event.SetFieldValue: one record per case. alloc: the case starts with
   "if e.ProcessContext.Ancestor == nil { allocate }" and attr is then a selector of
   e.ProcessContext.Ancestor; assert: the type asserted of value; how: "assign"
   (assert, return on !ok, then store conv(v)), "append" (assert, return on !ok,
   then append) or "assert-assign" (the assertion itself assigns the attribute);
   errField: the Field of the ErrValueTypeMismatch *)
SetFieldValueCases ==
  << [case |-> "capset.cap_effective", alloc |-> FALSE, assert |-> "int", how |-> "assign", conv |-> "uint64", attr |-> "Capset.CapEffective", errField |-> "Capset.CapEffective"],
     [case |-> "capset.cap_permitted", alloc |-> FALSE, assert |-> "int", how |-> "assign", conv |-> "uint64", attr |-> "Capset.CapPermitted", errField |-> "Capset.CapPermitted"],
     [case |-> "chmod.file.container_path", alloc |-> FALSE, assert |-> "string", how |-> "assign", conv |-> "", attr |-> "Chmod.File.ContainerPath", errField |-> "Chmod.File.ContainerPath"],
     [case |-> "chmod.file.destination.mode", alloc |-> FALSE, assert |-> "int", how |-> "assign", conv |-> "uint32", attr |-> "Chmod.Mode", errField |-> "Chmod.Mode"],
     [case |-> "chmod.file.gid", alloc |-> FALSE, assert |-> "int", how |-> "assign", conv |-> "uint32", attr |-> "Chmod.File.FileFields.GID", errField |-> "Chmod.File.FileFields.GID"],
     [case |-> "chmod.file.group", alloc |-> FALSE, assert |-> "string", how |-> "assign", conv |-> "", attr |-> "Chmod.File.FileFields.Group", errField |-> "Chmod.File.FileFields.Group"],
     [case |-> "chmod.file.inode", alloc |-> FALSE, assert |-> "int", how |-> "assign", conv |-> "uint64", attr |-> "Chmod.File.FileFields.Inode", errField |-> "Chmod.File.FileFields.Inode"],
     [case |-> "chmod.file.mode", alloc |-> FALSE, assert |-> "int", how |-> "assign", conv |-> "uint16", attr |-> "Chmod.File.FileFields.Mode", errField |-> "Chmod.File.FileFields.Mode"],
     [case |-> "chmod.file.mount_id", alloc |-> FALSE, assert |-> "int", how |-> "assign", conv |-> "uint32", attr |-> "Chmod.File.FileFields.MountID", errField |-> "Chmod.File.FileFields.MountID"],
     [case |-> "chmod.file.name", alloc |-> FALSE, assert |-> "string", how |-> "assign", conv |-> "", attr |-> "Chmod.File.BasenameStr", errField |-> "Chmod.File.BasenameStr"],
     [case |-> "chmod.file.overlay_numlower", alloc |-> FALSE, assert |-> "int", how |-> "assign", conv |-> "int32", attr |-> "Chmod.File.FileFields.OverlayNumLower", errField |-> "Chmod.File.FileFields.OverlayNumLower"],
     [case |-> "chmod.file.path", alloc |-> FALSE, assert |-> "string", how |-> "assign", conv |-> "", attr |-> "Chmod.File.PathnameStr", errField |-> "Chmod.File.PathnameStr"],
     [case |-> "chmod.file.uid", alloc |-> FALSE, assert |-> "int", how |-> "assign", conv |-> "uint32", attr |-> "Chmod.File.FileFields.UID", errField |-> "Chmod.File.FileFields.UID"],
     [case |-> "chmod.file.user", alloc |-> FALSE, assert |-> "string", how |-> "assign", conv |-> "", attr |-> "Chmod.File.FileFields.User", errField |-> "Chmod.File.FileFields.User"],
     [case |-> "chmod.retval", alloc |-> FALSE, assert |-> "int", how |-> "assign", conv |-> "int64", attr |-> "Chmod.SyscallEvent.Retval", errField |-> "Chmod.SyscallEvent.Retval"],
     [case |-> "chown.file.container_path", alloc |-> FALSE, assert |-> "string", how |-> "assign", conv |-> "", attr |-> "Chown.File.ContainerPath", errField |-> "Chown.File.ContainerPath"],
     [case |-> "chown.file.destination.gid", alloc |-> FALSE, assert |-> "int", how |-> "assign", conv |-> "uint32", attr |-> "Chown.GID", errField |-> "Chown.GID"],
     [case |-> "chown.file.destination.group", alloc |-> FALSE, assert |-> "string", how |-> "assign", conv |-> "", attr |-> "Chown.Group", errField |-> "Chown.Group"],
     [case |-> "chown.file.destination.uid", alloc |-> FALSE, assert |-> "int", how |-> "assign", conv |-> "uint32", attr |-> "Chown.UID", errField |-> "Chown.UID"],
     [case |-> "chown.file.destination.user", alloc |-> FALSE, assert |-> "string", how |-> "assign", conv |-> "", attr |-> "Chown.User", errField |-> "Chown.User"],
     [case |-> "chown.file.gid", alloc |-> FALSE, assert |-> "int", how |-> "assign", conv |-> "uint32", attr |-> "Chown.File.FileFields.GID", errField |-> "Chown.File.FileFields.GID"],
     [case |-> "chown.file.group", alloc |-> FALSE, assert |-> "string", how |-> "assign", conv |-> "", attr |-> "Chown.File.FileFields.Group", errField |-> "Chown.File.FileFields.Group"],
     [case |-> "chown.file.inode", alloc |-> FALSE, assert |-> "int", how |-> "assign", conv |-> "uint64", attr |-> "Chown.File.FileFields.Inode", errField |-> "Chown.File.FileFields.Inode"],
     [case |-> "chown.file.mode", alloc |-> FALSE, assert |-> "int", how |-> "assign", conv |-> "uint16", attr |-> "Chown.File.FileFields.Mode", errField |-> "Chown.File.FileFields.Mode"],
     [case |-> "chown.file.mount_id", alloc |-> FALSE, assert |-> "int", how |-> "assign", conv |-> "uint32", attr |-> "Chown.File.FileFields.MountID", errField |-> "Chown.File.FileFields.MountID"],
     [case |-> "chown.file.name", alloc |-> FALSE, assert |-> "string", how |-> "assign", conv |-> "", attr |-> "Chown.File.BasenameStr", errField |-> "Chown.File.BasenameStr"],
     [case |-> "chown.file.overlay_numlower", alloc |-> FALSE, assert |-> "int", how |-> "assign", conv |-> "int32", attr |-> "Chown.File.FileFields.OverlayNumLower", errField |-> "Chown.File.FileFields.OverlayNumLower"],
     [case |-> "chown.file.path", alloc |-> FALSE, assert |-> "string", how |-> "assign", conv |-> "", attr |-> "Chown.File.PathnameStr", errField |-> "Chown.File.PathnameStr"],
     [case |-> "chown.file.uid", alloc |-> FALSE, assert |-> "int", how |-> "assign", conv |-> "uint32", attr |-> "Chown.File.FileFields.UID", errField |-> "Chown.File.FileFields.UID"],
     [case |-> "chown.file.user", alloc |-> FALSE, assert |-> "string", how |-> "assign", conv |-> "", attr |-> "Chown.File.FileFields.User", errField |-> "Chown.File.FileFields.User"],
     [case |-> "chown.retval", alloc |-> FALSE, assert |-> "int", how |-> "assign", conv |-> "int64", attr |-> "Chown.SyscallEvent.Retval", errField |-> "Chown.SyscallEvent.Retval"],
     [case |-> "container.id", alloc |-> FALSE, assert |-> "string", how |-> "assign", conv |-> "", attr |-> "ContainerContext.ID", errField |-> "ContainerContext.ID"],
     [case |-> "exec.args", alloc |-> FALSE, assert |-> "string", how |-> "append", conv |-> "", attr |-> "Exec.Args", errField |-> "Exec.Args"],
     [case |-> "exec.args_truncated", alloc |-> FALSE, assert |-> "bool", how |-> "assert-assign", conv |-> "", attr |-> "Exec.ArgsTruncated", errField |-> "Exec.ArgsTruncated"],
     [case |-> "exec.cap_effective", alloc |-> FALSE, assert |-> "int", how |-> "assign", conv |-> "uint64", attr |-> "Exec.Process.Credentials.CapEffective", errField |-> "Exec.Process.Credentials.CapEffective"],
     [case |-> "exec.cap_permitted", alloc |-> FALSE, assert |-> "int", how |-> "assign", conv |-> "uint64", attr |-> "Exec.Process.Credentials.CapPermitted", errField |-> "Exec.Process.Credentials.CapPermitted"],
     [case |-> "exec.comm", alloc |-> FALSE, assert |-> "string", how |-> "assign", conv |-> "", attr |-> "Exec.Process.Comm", errField |-> "Exec.Process.Comm"],
     [case |-> "exec.cookie", alloc |-> FALSE, assert |-> "int", how |-> "assign", conv |-> "uint32", attr |-> "Exec.Process.Cookie", errField |-> "Exec.Process.Cookie"],
     [case |-> "exec.egid", alloc |-> FALSE, assert |-> "int", how |-> "assign", conv |-> "uint32", attr |-> "Exec.Process.Credentials.EGID", errField |-> "Exec.Process.Credentials.EGID"],
     [case |-> "exec.egroup", alloc |-> FALSE, assert |-> "string", how |-> "assign", conv |-> "", attr |-> "Exec.Process.Credentials.EGroup", errField |-> "Exec.Process.Credentials.EGroup"],
     [case |-> "exec.envs", alloc |-> FALSE, assert |-> "string", how |-> "append", conv |-> "", attr |-> "Exec.Envs", errField |-> "Exec.Envs"],
     [case |-> "exec.envs_truncated", alloc |-> FALSE, assert |-> "bool", how |-> "assert-assign", conv |-> "", attr |-> "Exec.EnvsTruncated", errField |-> "Exec.EnvsTruncated"],
     [case |-> "exec.euid", alloc |-> FALSE, assert |-> "int", how |-> "assign", conv |-> "uint32", attr |-> "Exec.Process.Credentials.EUID", errField |-> "Exec.Process.Credentials.EUID"],
     [case |-> "exec.euser", alloc |-> FALSE, assert |-> "string", how |-> "assign", conv |-> "", attr |-> "Exec.Process.Credentials.EUser", errField |-> "Exec.Process.Credentials.EUser"],
     [case |-> "exec.file.container_path", alloc |-> FALSE, assert |-> "string", how |-> "assign", conv |-> "", attr |-> "Exec.Process.ContainerPath", errField |-> "Exec.Process.ContainerPath"],
     [case |-> "exec.file.gid", alloc |-> FALSE, assert |-> "int", how |-> "assign", conv |-> "uint32", attr |-> "Exec.Process.FileFields.GID", errField |-> "Exec.Process.FileFields.GID"],
     [case |-> "exec.file.group", alloc |-> FALSE, assert |-> "string", how |-> "assign", conv |-> "", attr |-> "Exec.Process.FileFields.Group", errField |-> "Exec.Process.FileFields.Group"],
     [case |-> "exec.file.inode", alloc |-> FALSE, assert |-> "int", how |-> "assign", conv |-> "uint64", attr |-> "Exec.Process.FileFields.Inode", errField |-> "Exec.Process.FileFields.Inode"],
     [case |-> "exec.file.mode", alloc |-> FALSE, assert |-> "int", how |-> "assign", conv |-> "uint16", attr |-> "Exec.Process.FileFields.Mode", errField |-> "Exec.Process.FileFields.Mode"],
     [case |-> "exec.file.mount_id", alloc |-> FALSE, assert |-> "int", how |-> "assign", conv |-> "uint32", attr |-> "Exec.Process.FileFields.MountID", errField |-> "Exec.Process.FileFields.MountID"],
     [case |-> "exec.file.name", alloc |-> FALSE, assert |-> "string", how |-> "assign", conv |-> "", attr |-> "Exec.Process.BasenameStr", errField |-> "Exec.Process.BasenameStr"],
     [case |-> "exec.file.overlay_numlower", alloc |-> FALSE, assert |-> "int", how |-> "assign", conv |-> "int32", attr |-> "Exec.Process.FileFields.OverlayNumLower", errField |-> "Exec.Process.FileFields.OverlayNumLower"],
     [case |-> "exec.file.path", alloc |-> FALSE, assert |-> "string", how |-> "assign", conv |-> "", attr |-> "Exec.Process.PathnameStr", errField |-> "Exec.Process.PathnameStr"],
     [case |-> "exec.file.uid", alloc |-> FALSE, assert |-> "int", how |-> "assign", conv |-> "uint32", attr |-> "Exec.Process.FileFields.UID", errField |-> "Exec.Process.FileFields.UID"],
     [case |-> "exec.file.user", alloc |-> FALSE, assert |-> "string", how |-> "assign", conv |-> "", attr |-> "Exec.Process.FileFields.User", errField |-> "Exec.Process.FileFields.User"],
     [case |-> "exec.fsgid", alloc |-> FALSE, assert |-> "int", how |-> "assign", conv |-> "uint32", attr |-> "Exec.Process.Credentials.FSGID", errField |-> "Exec.Process.Credentials.FSGID"],
     [case |-> "exec.fsgroup", alloc |-> FALSE, assert |-> "string", how |-> "assign", conv |-> "", attr |-> "Exec.Process.Credentials.FSGroup", errField |-> "Exec.Process.Credentials.FSGroup"],
     [case |-> "exec.fsuid", alloc |-> FALSE, assert |-> "int", how |-> "assign", conv |-> "uint32", attr |-> "Exec.Process.Credentials.FSUID", errField |-> "Exec.Process.Credentials.FSUID"],
     [case |-> "exec.fsuser", alloc |-> FALSE, assert |-> "string", how |-> "assign", conv |-> "", attr |-> "Exec.Process.Credentials.FSUser", errField |-> "Exec.Process.Credentials.FSUser"],
     [case |-> "exec.gid", alloc |-> FALSE, assert |-> "int", how |-> "assign", conv |-> "uint32", attr |-> "Exec.Process.Credentials.GID", errField |-> "Exec.Process.Credentials.GID"],
     [case |-> "exec.group", alloc |-> FALSE, assert |-> "string", how |-> "assign", conv |-> "", attr |-> "Exec.Process.Credentials.Group", errField |-> "Exec.Process.Credentials.Group"],
     [case |-> "exec.ppid", alloc |-> FALSE, assert |-> "int", how |-> "assign", conv |-> "uint32", attr |-> "Exec.Process.PPid", errField |-> "Exec.Process.PPid"],
     [case |-> "exec.tty_name", alloc |-> FALSE, assert |-> "string", how |-> "assign", conv |-> "", attr |-> "Exec.Process.TTYName", errField |-> "Exec.Process.TTYName"],
     [case |-> "exec.uid", alloc |-> FALSE, assert |-> "int", how |-> "assign", conv |-> "uint32", attr |-> "Exec.Process.Credentials.UID", errField |-> "Exec.Process.Credentials.UID"],
     [case |-> "exec.user", alloc |-> FALSE, assert |-> "string", how |-> "assign", conv |-> "", attr |-> "Exec.Process.Credentials.User", errField |-> "Exec.Process.Credentials.User"],
     [case |-> "link.file.container_path", alloc |-> FALSE, assert |-> "string", how |-> "assign", conv |-> "", attr |-> "Link.Source.ContainerPath", errField |-> "Link.Source.ContainerPath"],
     [case |-> "link.file.destination.container_path", alloc |-> FALSE, assert |-> "string", how |-> "assign", conv |-> "", attr |-> "Link.Target.ContainerPath", errField |-> "Link.Target.ContainerPath"],
     [case |-> "link.file.destination.gid", alloc |-> FALSE, assert |-> "int", how |-> "assign", conv |-> "uint32", attr |-> "Link.Target.FileFields.GID", errField |-> "Link.Target.FileFields.GID"],
     [case |-> "link.file.destination.group", alloc |-> FALSE, assert |-> "string", how |-> "assign", conv |-> "", attr |-> "Link.Target.FileFields.Group", errField |-> "Link.Target.FileFields.Group"],
     [case |-> "link.file.destination.inode", alloc |-> FALSE, assert |-> "int", how |-> "assign", conv |-> "uint64", attr |-> "Link.Target.FileFields.Inode", errField |-> "Link.Target.FileFields.Inode"],
     [case |-> "link.file.destination.mode", alloc |-> FALSE, assert |-> "int", how |-> "assign", conv |-> "uint16", attr |-> "Link.Target.FileFields.Mode", errField |-> "Link.Target.FileFields.Mode"],
     [case |-> "link.file.destination.mount_id", alloc |-> FALSE, assert |-> "int", how |-> "assign", conv |-> "uint32", attr |-> "Link.Target.FileFields.MountID", errField |-> "Link.Target.FileFields.MountID"],
     [case |-> "link.file.destination.name", alloc |-> FALSE, assert |-> "string", how |-> "assign", conv |-> "", attr |-> "Link.Target.BasenameStr", errField |-> "Link.Target.BasenameStr"],
     [case |-> "link.file.destination.overlay_numlower", alloc |-> FALSE, assert |-> "int", how |-> "assign", conv |-> "int32", attr |-> "Link.Target.FileFields.OverlayNumLower", errField |-> "Link.Target.FileFields.OverlayNumLower"],
     [case |-> "link.file.destination.path", alloc |-> FALSE, assert |-> "string", how |-> "assign", conv |-> "", attr |-> "Link.Target.PathnameStr", errField |-> "Link.Target.PathnameStr"],
     [case |-> "link.file.destination.uid", alloc |-> FALSE, assert |-> "int", how |-> "assign", conv |-> "uint32", attr |-> "Link.Target.FileFields.UID", errField |-> "Link.Target.FileFields.UID"],
     [case |-> "link.file.destination.user", alloc |-> FALSE, assert |-> "string", how |-> "assign", conv |-> "", attr |-> "Link.Target.FileFields.User", errField |-> "Link.Target.FileFields.User"],
     [case |-> "link.file.gid", alloc |-> FALSE, assert |-> "int", how |-> "assign", conv |-> "uint32", attr |-> "Link.Source.FileFields.GID", errField |-> "Link.Source.FileFields.GID"],
     [case |-> "link.file.group", alloc |-> FALSE, assert |-> "string", how |-> "assign", conv |-> "", attr |-> "Link.Source.FileFields.Group", errField |-> "Link.Source.FileFields.Group"],
     [case |-> "link.file.inode", alloc |-> FALSE, assert |-> "int", how |-> "assign", conv |-> "uint64", attr |-> "Link.Source.FileFields.Inode", errField |-> "Link.Source.FileFields.Inode"],
     [case |-> "link.file.mode", alloc |-> FALSE, assert |-> "int", how |-> "assign", conv |-> "uint16", attr |-> "Link.Source.FileFields.Mode", errField |-> "Link.Source.FileFields.Mode"],
     [case |-> "link.file.mount_id", alloc |-> FALSE, assert |-> "int", how |-> "assign", conv |-> "uint32", attr |-> "Link.Source.FileFields.MountID", errField |-> "Link.Source.FileFields.MountID"],
     [case |-> "link.file.name", alloc |-> FALSE, assert |-> "string", how |-> "assign", conv |-> "", attr |-> "Link.Source.BasenameStr", errField |-> "Link.Source.BasenameStr"],
     [case |-> "link.file.overlay_numlower", alloc |-> FALSE, assert |-> "int", how |-> "assign", conv |-> "int32", attr |-> "Link.Source.FileFields.OverlayNumLower", errField |-> "Link.Source.FileFields.OverlayNumLower"],
     [case |-> "link.file.path", alloc |-> FALSE, assert |-> "string", how |-> "assign", conv |-> "", attr |-> "Link.Source.PathnameStr", errField |-> "Link.Source.PathnameStr"],
     [case |-> "link.file.uid", alloc |-> FALSE, assert |-> "int", how |-> "assign", conv |-> "uint32", attr |-> "Link.Source.FileFields.UID", errField |-> "Link.Source.FileFields.UID"],
     [case |-> "link.file.user", alloc |-> FALSE, assert |-> "string", how |-> "assign", conv |-> "", attr |-> "Link.Source.FileFields.User", errField |-> "Link.Source.FileFields.User"],
     [case |-> "link.retval", alloc |-> FALSE, assert |-> "int", how |-> "assign", conv |-> "int64", attr |-> "Link.SyscallEvent.Retval", errField |-> "Link.SyscallEvent.Retval"],
     [case |-> "mkdir.file.container_path", alloc |-> FALSE, assert |-> "string", how |-> "assign", conv |-> "", attr |-> "Mkdir.File.ContainerPath", errField |-> "Mkdir.File.ContainerPath"],
     [case |-> "mkdir.file.destination.mode", alloc |-> FALSE, assert |-> "int", how |-> "assign", conv |-> "uint32", attr |-> "Mkdir.Mode", errField |-> "Mkdir.Mode"],
     [case |-> "mkdir.file.gid", alloc |-> FALSE, assert |-> "int", how |-> "assign", conv |-> "uint32", attr |-> "Mkdir.File.FileFields.GID", errField |-> "Mkdir.File.FileFields.GID"],
     [case |-> "mkdir.file.group", alloc |-> FALSE, assert |-> "string", how |-> "assign", conv |-> "", attr |-> "Mkdir.File.FileFields.Group", errField |-> "Mkdir.File.FileFields.Group"],
     [case |-> "mkdir.file.inode", alloc |-> FALSE, assert |-> "int", how |-> "assign", conv |-> "uint64", attr |-> "Mkdir.File.FileFields.Inode", errField |-> "Mkdir.File.FileFields.Inode"],
     [case |-> "mkdir.file.mode", alloc |-> FALSE, assert |-> "int", how |-> "assign", conv |-> "uint16", attr |-> "Mkdir.File.FileFields.Mode", errField |-> "Mkdir.File.FileFields.Mode"],
     [case |-> "mkdir.file.mount_id", alloc |-> FALSE, assert |-> "int", how |-> "assign", conv |-> "uint32", attr |-> "Mkdir.File.FileFields.MountID", errField |-> "Mkdir.File.FileFields.MountID"],
     [case |-> "mkdir.file.name", alloc |-> FALSE, assert |-> "string", how |-> "assign", conv |-> "", attr |-> "Mkdir.File.BasenameStr", errField |-> "Mkdir.File.BasenameStr"],
     [case |-> "mkdir.file.overlay_numlower", alloc |-> FALSE, assert |-> "int", how |-> "assign", conv |-> "int32", attr |-> "Mkdir.File.FileFields.OverlayNumLower", errField |-> "Mkdir.File.FileFields.OverlayNumLower"],
     [case |-> "mkdir.file.path", alloc |-> FALSE, assert |-> "string", how |-> "assign", conv |-> "", attr |-> "Mkdir.File.PathnameStr", errField |-> "Mkdir.File.PathnameStr"],
     [case |-> "mkdir.file.uid", alloc |-> FALSE, assert |-> "int", how |-> "assign", conv |-> "uint32", attr |-> "Mkdir.File.FileFields.UID", errField |-> "Mkdir.File.FileFields.UID"],
     [case |-> "mkdir.file.user", alloc |-> FALSE, assert |-> "string", how |-> "assign", conv |-> "", attr |-> "Mkdir.File.FileFields.User", errField |-> "Mkdir.File.FileFields.User"],
     [case |-> "mkdir.retval", alloc |-> FALSE, assert |-> "int", how |-> "assign", conv |-> "int64", attr |-> "Mkdir.SyscallEvent.Retval", errField |-> "Mkdir.SyscallEvent.Retval"],
     [case |-> "open.file.container_path", alloc |-> FALSE, assert |-> "string", how |-> "assign", conv |-> "", attr |-> "Open.File.ContainerPath", errField |-> "Open.File.ContainerPath"],
     [case |-> "open.file.destination.mode", alloc |-> FALSE, assert |-> "int", how |-> "assign", conv |-> "uint32", attr |-> "Open.Mode", errField |-> "Open.Mode"],
     [case |-> "open.file.gid", alloc |-> FALSE, assert |-> "int", how |-> "assign", conv |-> "uint32", attr |-> "Open.File.FileFields.GID", errField |-> "Open.File.FileFields.GID"],
     [case |-> "open.file.group", alloc |-> FALSE, assert |-> "string", how |-> "assign", conv |-> "", attr |-> "Open.File.FileFields.Group", errField |-> "Open.File.FileFields.Group"],
     [case |-> "open.file.inode", alloc |-> FALSE, assert |-> "int", how |-> "assign", conv |-> "uint64", attr |-> "Open.File.FileFields.Inode", errField |-> "Open.File.FileFields.Inode"],
     [case |-> "open.file.mode", alloc |-> FALSE, assert |-> "int", how |-> "assign", conv |-> "uint16", attr |-> "Open.File.FileFields.Mode", errField |-> "Open.File.FileFields.Mode"],
     [case |-> "open.file.mount_id", alloc |-> FALSE, assert |-> "int", how |-> "assign", conv |-> "uint32", attr |-> "Open.File.FileFields.MountID", errField |-> "Open.File.FileFields.MountID"],
     [case |-> "open.file.name", alloc |-> FALSE, assert |-> "string", how |-> "assign", conv |-> "", attr |-> "Open.File.BasenameStr", errField |-> "Open.File.BasenameStr"],
     [case |-> "open.file.overlay_numlower", alloc |-> FALSE, assert |-> "int", how |-> "assign", conv |-> "int32", attr |-> "Open.File.FileFields.OverlayNumLower", errField |-> "Open.File.FileFields.OverlayNumLower"],
     [case |-> "open.file.path", alloc |-> FALSE, assert |-> "string", how |-> "assign", conv |-> "", attr |-> "Open.File.PathnameStr", errField |-> "Open.File.PathnameStr"],
     [case |-> "open.file.uid", alloc |-> FALSE, assert |-> "int", how |-> "assign", conv |-> "uint32", attr |-> "Open.File.FileFields.UID", errField |-> "Open.File.FileFields.UID"],
     [case |-> "open.file.user", alloc |-> FALSE, assert |-> "string", how |-> "assign", conv |-> "", attr |-> "Open.File.FileFields.User", errField |-> "Open.File.FileFields.User"],
     [case |-> "open.flags", alloc |-> FALSE, assert |-> "int", how |-> "assign", conv |-> "uint32", attr |-> "Open.Flags", errField |-> "Open.Flags"],
     [case |-> "open.retval", alloc |-> FALSE, assert |-> "int", how |-> "assign", conv |-> "int64", attr |-> "Open.SyscallEvent.Retval", errField |-> "Open.SyscallEvent.Retval"],
     [case |-> "process.ancestors.cap_effective", alloc |-> TRUE, assert |-> "int", how |-> "assign", conv |-> "uint64", attr |-> "ProcessContext.Process.Credentials.CapEffective", errField |-> "ProcessContext.Ancestor.ProcessContext.Process.Credentials.CapEffective"],
     [case |-> "process.ancestors.cap_permitted", alloc |-> TRUE, assert |-> "int", how |-> "assign", conv |-> "uint64", attr |-> "ProcessContext.Process.Credentials.CapPermitted", errField |-> "ProcessContext.Ancestor.ProcessContext.Process.Credentials.CapPermitted"],
     [case |-> "process.ancestors.comm", alloc |-> TRUE, assert |-> "string", how |-> "assign", conv |-> "", attr |-> "ProcessContext.Process.Comm", errField |-> "ProcessContext.Ancestor.ProcessContext.Process.Comm"],
     [case |-> "process.ancestors.cookie", alloc |-> TRUE, assert |-> "int", how |-> "assign", conv |-> "uint32", attr |-> "ProcessContext.Process.Cookie", errField |-> "ProcessContext.Ancestor.ProcessContext.Process.Cookie"],
     [case |-> "process.ancestors.egid", alloc |-> TRUE, assert |-> "int", how |-> "assign", conv |-> "uint32", attr |-> "ProcessContext.Process.Credentials.EGID", errField |-> "ProcessContext.Ancestor.ProcessContext.Process.Credentials.EGID"],
     [case |-> "process.ancestors.egroup", alloc |-> TRUE, assert |-> "string", how |-> "assign", conv |-> "", attr |-> "ProcessContext.Process.Credentials.EGroup", errField |-> "ProcessContext.Ancestor.ProcessContext.Process.Credentials.EGroup"],
     [case |-> "process.ancestors.euid", alloc |-> TRUE, assert |-> "int", how |-> "assign", conv |-> "uint32", attr |-> "ProcessContext.Process.Credentials.EUID", errField |-> "ProcessContext.Ancestor.ProcessContext.Process.Credentials.EUID"],
     [case |-> "process.ancestors.euser", alloc |-> TRUE, assert |-> "string", how |-> "assign", conv |-> "", attr |-> "ProcessContext.Process.Credentials.EUser", errField |-> "ProcessContext.Ancestor.ProcessContext.Process.Credentials.EUser"],
     [case |-> "process.ancestors.file.container_path", alloc |-> TRUE, assert |-> "string", how |-> "assign", conv |-> "", attr |-> "ProcessContext.Process.ContainerPath", errField |-> "ProcessContext.Ancestor.ProcessContext.Process.ContainerPath"],
     [case |-> "process.ancestors.file.gid", alloc |-> TRUE, assert |-> "int", how |-> "assign", conv |-> "uint32", attr |-> "ProcessContext.Process.FileFields.GID", errField |-> "ProcessContext.Ancestor.ProcessContext.Process.FileFields.GID"],
     [case |-> "process.ancestors.file.group", alloc |-> TRUE, assert |-> "string", how |-> "assign", conv |-> "", attr |-> "ProcessContext.Process.FileFields.Group", errField |-> "ProcessContext.Ancestor.ProcessContext.Process.FileFields.Group"],
     [case |-> "process.ancestors.file.inode", alloc |-> TRUE, assert |-> "int", how |-> "assign", conv |-> "uint64", attr |-> "ProcessContext.Process.FileFields.Inode", errField |-> "ProcessContext.Ancestor.ProcessContext.Process.FileFields.Inode"],
     [case |-> "process.ancestors.file.mode", alloc |-> TRUE, assert |-> "int", how |-> "assign", conv |-> "uint16", attr |-> "ProcessContext.Process.FileFields.Mode", errField |-> "ProcessContext.Ancestor.ProcessContext.Process.FileFields.Mode"],
     [case |-> "process.ancestors.file.mount_id", alloc |-> TRUE, assert |-> "int", how |-> "assign", conv |-> "uint32", attr |-> "ProcessContext.Process.FileFields.MountID", errField |-> "ProcessContext.Ancestor.ProcessContext.Process.FileFields.MountID"],
     [case |-> "process.ancestors.file.name", alloc |-> TRUE, assert |-> "string", how |-> "assign", conv |-> "", attr |-> "ProcessContext.Process.BasenameStr", errField |-> "ProcessContext.Ancestor.ProcessContext.Process.BasenameStr"],
     [case |-> "process.ancestors.file.overlay_numlower", alloc |-> TRUE, assert |-> "int", how |-> "assign", conv |-> "int32", attr |-> "ProcessContext.Process.FileFields.OverlayNumLower", errField |-> "ProcessContext.Ancestor.ProcessContext.Process.FileFields.OverlayNumLower"],
     [case |-> "process.ancestors.file.path", alloc |-> TRUE, assert |-> "string", how |-> "assign", conv |-> "", attr |-> "ProcessContext.Process.PathnameStr", errField |-> "ProcessContext.Ancestor.ProcessContext.Process.PathnameStr"],
     [case |-> "process.ancestors.file.uid", alloc |-> TRUE, assert |-> "int", how |-> "assign", conv |-> "uint32", attr |-> "ProcessContext.Process.FileFields.UID", errField |-> "ProcessContext.Ancestor.ProcessContext.Process.FileFields.UID"],
     [case |-> "process.ancestors.file.user", alloc |-> TRUE, assert |-> "string", how |-> "assign", conv |-> "", attr |-> "ProcessContext.Process.FileFields.User", errField |-> "ProcessContext.Ancestor.ProcessContext.Process.FileFields.User"],
     [case |-> "process.ancestors.fsgid", alloc |-> TRUE, assert |-> "int", how |-> "assign", conv |-> "uint32", attr |-> "ProcessContext.Process.Credentials.FSGID", errField |-> "ProcessContext.Ancestor.ProcessContext.Process.Credentials.FSGID"],
     [case |-> "process.ancestors.fsgroup", alloc |-> TRUE, assert |-> "string", how |-> "assign", conv |-> "", attr |-> "ProcessContext.Process.Credentials.FSGroup", errField |-> "ProcessContext.Ancestor.ProcessContext.Process.Credentials.FSGroup"],
     [case |-> "process.ancestors.fsuid", alloc |-> TRUE, assert |-> "int", how |-> "assign", conv |-> "uint32", attr |-> "ProcessContext.Process.Credentials.FSUID", errField |-> "ProcessContext.Ancestor.ProcessContext.Process.Credentials.FSUID"],
     [case |-> "process.ancestors.fsuser", alloc |-> TRUE, assert |-> "string", how |-> "assign", conv |-> "", attr |-> "ProcessContext.Process.Credentials.FSUser", errField |-> "ProcessContext.Ancestor.ProcessContext.Process.Credentials.FSUser"],
     [case |-> "process.ancestors.gid", alloc |-> TRUE, assert |-> "int", how |-> "assign", conv |-> "uint32", attr |-> "ProcessContext.Process.Credentials.GID", errField |-> "ProcessContext.Ancestor.ProcessContext.Process.Credentials.GID"],
     [case |-> "process.ancestors.group", alloc |-> TRUE, assert |-> "string", how |-> "assign", conv |-> "", attr |-> "ProcessContext.Process.Credentials.Group", errField |-> "ProcessContext.Ancestor.ProcessContext.Process.Credentials.Group"],
     [case |-> "process.ancestors.id", alloc |-> TRUE, assert |-> "string", how |-> "assign", conv |-> "", attr |-> "ContainerContext.ID", errField |-> "ProcessContext.Ancestor.ContainerContext.ID"],
     [case |-> "process.ancestors.pid", alloc |-> TRUE, assert |-> "int", how |-> "assign", conv |-> "uint32", attr |-> "ProcessContext.Pid", errField |-> "ProcessContext.Ancestor.ProcessContext.Pid"],
     [case |-> "process.ancestors.ppid", alloc |-> TRUE, assert |-> "int", how |-> "assign", conv |-> "uint32", attr |-> "ProcessContext.Process.PPid", errField |-> "ProcessContext.Ancestor.ProcessContext.Process.PPid"],
     [case |-> "process.ancestors.tid", alloc |-> TRUE, assert |-> "int", how |-> "assign", conv |-> "uint32", attr |-> "ProcessContext.Tid", errField |-> "ProcessContext.Ancestor.ProcessContext.Tid"],
     [case |-> "process.ancestors.tty_name", alloc |-> TRUE, assert |-> "string", how |-> "assign", conv |-> "", attr |-> "ProcessContext.Process.TTYName", errField |-> "ProcessContext.Ancestor.ProcessContext.Process.TTYName"],
     [case |-> "process.ancestors.uid", alloc |-> TRUE, assert |-> "int", how |-> "assign", conv |-> "uint32", attr |-> "ProcessContext.Process.Credentials.UID", errField |-> "ProcessContext.Ancestor.ProcessContext.Process.Credentials.UID"],
     [case |-> "process.ancestors.user", alloc |-> TRUE, assert |-> "string", how |-> "assign", conv |-> "", attr |-> "ProcessContext.Process.Credentials.User", errField |-> "ProcessContext.Ancestor.ProcessContext.Process.Credentials.User"],
     [case |-> "process.cap_effective", alloc |-> FALSE, assert |-> "int", how |-> "assign", conv |-> "uint64", attr |-> "ProcessContext.Process.Credentials.CapEffective", errField |-> "ProcessContext.Process.Credentials.CapEffective"],
     [case |-> "process.cap_permitted", alloc |-> FALSE, assert |-> "int", how |-> "assign", conv |-> "uint64", attr |-> "ProcessContext.Process.Credentials.CapPermitted", errField |-> "ProcessContext.Process.Credentials.CapPermitted"],
     [case |-> "process.comm", alloc |-> FALSE, assert |-> "string", how |-> "assign", conv |-> "", attr |-> "ProcessContext.Process.Comm", errField |-> "ProcessContext.Process.Comm"],
     [case |-> "process.cookie", alloc |-> FALSE, assert |-> "int", how |-> "assign", conv |-> "uint32", attr |-> "ProcessContext.Process.Cookie", errField |-> "ProcessContext.Process.Cookie"],
     [case |-> "process.egid", alloc |-> FALSE, assert |-> "int", how |-> "assign", conv |-> "uint32", attr |-> "ProcessContext.Process.Credentials.EGID", errField |-> "ProcessContext.Process.Credentials.EGID"],
     [case |-> "process.egroup", alloc |-> FALSE, assert |-> "string", how |-> "assign", conv |-> "", attr |-> "ProcessContext.Process.Credentials.EGroup", errField |-> "ProcessContext.Process.Credentials.EGroup"],
     [case |-> "process.euid", alloc |-> FALSE, assert |-> "int", how |-> "assign", conv |-> "uint32", attr |-> "ProcessContext.Process.Credentials.EUID", errField |-> "ProcessContext.Process.Credentials.EUID"],
     [case |-> "process.euser", alloc |-> FALSE, assert |-> "string", how |-> "assign", conv |-> "", attr |-> "ProcessContext.Process.Credentials.EUser", errField |-> "ProcessContext.Process.Credentials.EUser"],
     [case |-> "process.file.container_path", alloc |-> FALSE, assert |-> "string", how |-> "assign", conv |-> "", attr |-> "ProcessContext.Process.ContainerPath", errField |-> "ProcessContext.Process.ContainerPath"],
     [case |-> "process.file.gid", alloc |-> FALSE, assert |-> "int", how |-> "assign", conv |-> "uint32", attr |-> "ProcessContext.Process.FileFields.GID", errField |-> "ProcessContext.Process.FileFields.GID"],
     [case |-> "process.file.group", alloc |-> FALSE, assert |-> "string", how |-> "assign", conv |-> "", attr |-> "ProcessContext.Process.FileFields.Group", errField |-> "ProcessContext.Process.FileFields.Group"],
     [case |-> "process.file.inode", alloc |-> FALSE, assert |-> "int", how |-> "assign", conv |-> "uint64", attr |-> "ProcessContext.Process.FileFields.Inode", errField |-> "ProcessContext.Process.FileFields.Inode"],
     [case |-> "process.file.mode", alloc |-> FALSE, assert |-> "int", how |-> "assign", conv |-> "uint16", attr |-> "ProcessContext.Process.FileFields.Mode", errField |-> "ProcessContext.Process.FileFields.Mode"],
     [case |-> "process.file.mount_id", alloc |-> FALSE, assert |-> "int", how |-> "assign", conv |-> "uint32", attr |-> "ProcessContext.Process.FileFields.MountID", errField |-> "ProcessContext.Process.FileFields.MountID"],
     [case |-> "process.file.name", alloc |-> FALSE, assert |-> "string", how |-> "assign", conv |-> "", attr |-> "ProcessContext.Process.BasenameStr", errField |-> "ProcessContext.Process.BasenameStr"],
     [case |-> "process.file.overlay_numlower", alloc |-> FALSE, assert |-> "int", how |-> "assign", conv |-> "int32", attr |-> "ProcessContext.Process.FileFields.OverlayNumLower", errField |-> "ProcessContext.Process.FileFields.OverlayNumLower"],
     [case |-> "process.file.path", alloc |-> FALSE, assert |-> "string", how |-> "assign", conv |-> "", attr |-> "ProcessContext.Process.PathnameStr", errField |-> "ProcessContext.Process.PathnameStr"],
     [case |-> "process.file.uid", alloc |-> FALSE, assert |-> "int", how |-> "assign", conv |-> "uint32", attr |-> "ProcessContext.Process.FileFields.UID", errField |-> "ProcessContext.Process.FileFields.UID"],
     [case |-> "process.file.user", alloc |-> FALSE, assert |-> "string", how |-> "assign", conv |-> "", attr |-> "ProcessContext.Process.FileFields.User", errField |-> "ProcessContext.Process.FileFields.User"],
     [case |-> "process.fsgid", alloc |-> FALSE, assert |-> "int", how |-> "assign", conv |-> "uint32", attr |-> "ProcessContext.Process.Credentials.FSGID", errField |-> "ProcessContext.Process.Credentials.FSGID"],
     [case |-> "process.fsgroup", alloc |-> FALSE, assert |-> "string", how |-> "assign", conv |-> "", attr |-> "ProcessContext.Process.Credentials.FSGroup", errField |-> "ProcessContext.Process.Credentials.FSGroup"],
     [case |-> "process.fsuid", alloc |-> FALSE, assert |-> "int", how |-> "assign", conv |-> "uint32", attr |-> "ProcessContext.Process.Credentials.FSUID", errField |-> "ProcessContext.Process.Credentials.FSUID"],
     [case |-> "process.fsuser", alloc |-> FALSE, assert |-> "string", how |-> "assign", conv |-> "", attr |-> "ProcessContext.Process.Credentials.FSUser", errField |-> "ProcessContext.Process.Credentials.FSUser"],
     [case |-> "process.gid", alloc |-> FALSE, assert |-> "int", how |-> "assign", conv |-> "uint32", attr |-> "ProcessContext.Process.Credentials.GID", errField |-> "ProcessContext.Process.Credentials.GID"],
     [case |-> "process.group", alloc |-> FALSE, assert |-> "string", how |-> "assign", conv |-> "", attr |-> "ProcessContext.Process.Credentials.Group", errField |-> "ProcessContext.Process.Credentials.Group"],
     [case |-> "process.pid", alloc |-> FALSE, assert |-> "int", how |-> "assign", conv |-> "uint32", attr |-> "ProcessContext.Pid", errField |-> "ProcessContext.Pid"],
     [case |-> "process.ppid", alloc |-> FALSE, assert |-> "int", how |-> "assign", conv |-> "uint32", attr |-> "ProcessContext.Process.PPid", errField |-> "ProcessContext.Process.PPid"],
     [case |-> "process.tid", alloc |-> FALSE, assert |-> "int", how |-> "assign", conv |-> "uint32", attr |-> "ProcessContext.Tid", errField |-> "ProcessContext.Tid"],
     [case |-> "process.tty_name", alloc |-> FALSE, assert |-> "string", how |-> "assign", conv |-> "", attr |-> "ProcessContext.Process.TTYName", errField |-> "ProcessContext.Process.TTYName"],
     [case |-> "process.uid", alloc |-> FALSE, assert |-> "int", how |-> "assign", conv |-> "uint32", attr |-> "ProcessContext.Process.Credentials.UID", errField |-> "ProcessContext.Process.Credentials.UID"],
     [case |-> "process.user", alloc |-> FALSE, assert |-> "string", how |-> "assign", conv |-> "", attr |-> "ProcessContext.Process.Credentials.User", errField |-> "ProcessContext.Process.Credentials.User"],
     [case |-> "removexattr.file.container_path", alloc |-> FALSE, assert |-> "string", how |-> "assign", conv |-> "", attr |-> "RemoveXAttr.File.ContainerPath", errField |-> "RemoveXAttr.File.ContainerPath"],
     [case |-> "removexattr.file.destination.name", alloc |-> FALSE, assert |-> "string", how |-> "assign", conv |-> "", attr |-> "RemoveXAttr.Name", errField |-> "RemoveXAttr.Name"],
     [case |-> "removexattr.file.destination.namespace", alloc |-> FALSE, assert |-> "string", how |-> "assign", conv |-> "", attr |-> "RemoveXAttr.Namespace", errField |-> "RemoveXAttr.Namespace"],
     [case |-> "removexattr.file.gid", alloc |-> FALSE, assert |-> "int", how |-> "assign", conv |-> "uint32", attr |-> "RemoveXAttr.File.FileFields.GID", errField |-> "RemoveXAttr.File.FileFields.GID"],
     [case |-> "removexattr.file.group", alloc |-> FALSE, assert |-> "string", how |-> "assign", conv |-> "", attr |-> "RemoveXAttr.File.FileFields.Group", errField |-> "RemoveXAttr.File.FileFields.Group"],
     [case |-> "removexattr.file.inode", alloc |-> FALSE, assert |-> "int", how |-> "assign", conv |-> "uint64", attr |-> "RemoveXAttr.File.FileFields.Inode", errField |-> "RemoveXAttr.File.FileFields.Inode"],
     [case |-> "removexattr.file.mode", alloc |-> FALSE, assert |-> "int", how |-> "assign", conv |-> "uint16", attr |-> "RemoveXAttr.File.FileFields.Mode", errField |-> "RemoveXAttr.File.FileFields.Mode"],
     [case |-> "removexattr.file.mount_id", alloc |-> FALSE, assert |-> "int", how |-> "assign", conv |-> "uint32", attr |-> "RemoveXAttr.File.FileFields.MountID", errField |-> "RemoveXAttr.File.FileFields.MountID"],
     [case |-> "removexattr.file.name", alloc |-> FALSE, assert |-> "string", how |-> "assign", conv |-> "", attr |-> "RemoveXAttr.File.BasenameStr", errField |-> "RemoveXAttr.File.BasenameStr"],
     [case |-> "removexattr.file.overlay_numlower", alloc |-> FALSE, assert |-> "int", how |-> "assign", conv |-> "int32", attr |-> "RemoveXAttr.File.FileFields.OverlayNumLower", errField |-> "RemoveXAttr.File.FileFields.OverlayNumLower"],
     [case |-> "removexattr.file.path", alloc |-> FALSE, assert |-> "string", how |-> "assign", conv |-> "", attr |-> "RemoveXAttr.File.PathnameStr", errField |-> "RemoveXAttr.File.PathnameStr"],
     [case |-> "removexattr.file.uid", alloc |-> FALSE, assert |-> "int", how |-> "assign", conv |-> "uint32", attr |-> "RemoveXAttr.File.FileFields.UID", errField |-> "RemoveXAttr.File.FileFields.UID"],
     [case |-> "removexattr.file.user", alloc |-> FALSE, assert |-> "string", how |-> "assign", conv |-> "", attr |-> "RemoveXAttr.File.FileFields.User", errField |-> "RemoveXAttr.File.FileFields.User"],
     [case |-> "removexattr.retval", alloc |-> FALSE, assert |-> "int", how |-> "assign", conv |-> "int64", attr |-> "RemoveXAttr.SyscallEvent.Retval", errField |-> "RemoveXAttr.SyscallEvent.Retval"],
     [case |-> "rename.file.container_path", alloc |-> FALSE, assert |-> "string", how |-> "assign", conv |-> "", attr |-> "Rename.Old.ContainerPath", errField |-> "Rename.Old.ContainerPath"],
     [case |-> "rename.file.destination.container_path", alloc |-> FALSE, assert |-> "string", how |-> "assign", conv |-> "", attr |-> "Rename.New.ContainerPath", errField |-> "Rename.New.ContainerPath"],
     [case |-> "rename.file.destination.gid", alloc |-> FALSE, assert |-> "int", how |-> "assign", conv |-> "uint32", attr |-> "Rename.New.FileFields.GID", errField |-> "Rename.New.FileFields.GID"],
     [case |-> "rename.file.destination.group", alloc |-> FALSE, assert |-> "string", how |-> "assign", conv |-> "", attr |-> "Rename.New.FileFields.Group", errField |-> "Rename.New.FileFields.Group"],
     [case |-> "rename.file.destination.inode", alloc |-> FALSE, assert |-> "int", how |-> "assign", conv |-> "uint64", attr |-> "Rename.New.FileFields.Inode", errField |-> "Rename.New.FileFields.Inode"],
     [case |-> "rename.file.destination.mode", alloc |-> FALSE, assert |-> "int", how |-> "assign", conv |-> "uint16", attr |-> "Rename.New.FileFields.Mode", errField |-> "Rename.New.FileFields.Mode"],
     [case |-> "rename.file.destination.mount_id", alloc |-> FALSE, assert |-> "int", how |-> "assign", conv |-> "uint32", attr |-> "Rename.New.FileFields.MountID", errField |-> "Rename.New.FileFields.MountID"],
     [case |-> "rename.file.destination.name", alloc |-> FALSE, assert |-> "string", how |-> "assign", conv |-> "", attr |-> "Rename.New.BasenameStr", errField |-> "Rename.New.BasenameStr"],
     [case |-> "rename.file.destination.overlay_numlower", alloc |-> FALSE, assert |-> "int", how |-> "assign", conv |-> "int32", attr |-> "Rename.New.FileFields.OverlayNumLower", errField |-> "Rename.New.FileFields.OverlayNumLower"],
     [case |-> "rename.file.destination.path", alloc |-> FALSE, assert |-> "string", how |-> "assign", conv |-> "", attr |-> "Rename.New.PathnameStr", errField |-> "Rename.New.PathnameStr"],
     [case |-> "rename.file.destination.uid", alloc |-> FALSE, assert |-> "int", how |-> "assign", conv |-> "uint32", attr |-> "Rename.New.FileFields.UID", errField |-> "Rename.New.FileFields.UID"],
     [case |-> "rename.file.destination.user", alloc |-> FALSE, assert |-> "string", how |-> "assign", conv |-> "", attr |-> "Rename.New.FileFields.User", errField |-> "Rename.New.FileFields.User"],
     [case |-> "rename.file.gid", alloc |-> FALSE, assert |-> "int", how |-> "assign", conv |-> "uint32", attr |-> "Rename.Old.FileFields.GID", errField |-> "Rename.Old.FileFields.GID"],
     [case |-> "rename.file.group", alloc |-> FALSE, assert |-> "string", how |-> "assign", conv |-> "", attr |-> "Rename.Old.FileFields.Group", errField |-> "Rename.Old.FileFields.Group"],
     [case |-> "rename.file.inode", alloc |-> FALSE, assert |-> "int", how |-> "assign", conv |-> "uint64", attr |-> "Rename.Old.FileFields.Inode", errField |-> "Rename.Old.FileFields.Inode"],
     [case |-> "rename.file.mode", alloc |-> FALSE, assert |-> "int", how |-> "assign", conv |-> "uint16", attr |-> "Rename.Old.FileFields.Mode", errField |-> "Rename.Old.FileFields.Mode"],
     [case |-> "rename.file.mount_id", alloc |-> FALSE, assert |-> "int", how |-> "assign", conv |-> "uint32", attr |-> "Rename.Old.FileFields.MountID", errField |-> "Rename.Old.FileFields.MountID"],
     [case |-> "rename.file.name", alloc |-> FALSE, assert |-> "string", how |-> "assign", conv |-> "", attr |-> "Rename.Old.BasenameStr", errField |-> "Rename.Old.BasenameStr"],
     [case |-> "rename.file.overlay_numlower", alloc |-> FALSE, assert |-> "int", how |-> "assign", conv |-> "int32", attr |-> "Rename.Old.FileFields.OverlayNumLower", errField |-> "Rename.Old.FileFields.OverlayNumLower"],
     [case |-> "rename.file.path", alloc |-> FALSE, assert |-> "string", how |-> "assign", conv |-> "", attr |-> "Rename.Old.PathnameStr", errField |-> "Rename.Old.PathnameStr"],
     [case |-> "rename.file.uid", alloc |-> FALSE, assert |-> "int", how |-> "assign", conv |-> "uint32", attr |-> "Rename.Old.FileFields.UID", errField |-> "Rename.Old.FileFields.UID"],
     [case |-> "rename.file.user", alloc |-> FALSE, assert |-> "string", how |-> "assign", conv |-> "", attr |-> "Rename.Old.FileFields.User", errField |-> "Rename.Old.FileFields.User"],
     [case |-> "rename.retval", alloc |-> FALSE, assert |-> "int", how |-> "assign", conv |-> "int64", attr |-> "Rename.SyscallEvent.Retval", errField |-> "Rename.SyscallEvent.Retval"],
     [case |-> "rmdir.file.container_path", alloc |-> FALSE, assert |-> "string", how |-> "assign", conv |-> "", attr |-> "Rmdir.File.ContainerPath", errField |-> "Rmdir.File.ContainerPath"],
     [case |-> "rmdir.file.gid", alloc |-> FALSE, assert |-> "int", how |-> "assign", conv |-> "uint32", attr |-> "Rmdir.File.FileFields.GID", errField |-> "Rmdir.File.FileFields.GID"],
     [case |-> "rmdir.file.group", alloc |-> FALSE, assert |-> "string", how |-> "assign", conv |-> "", attr |-> "Rmdir.File.FileFields.Group", errField |-> "Rmdir.File.FileFields.Group"],
     [case |-> "rmdir.file.inode", alloc |-> FALSE, assert |-> "int", how |-> "assign", conv |-> "uint64", attr |-> "Rmdir.File.FileFields.Inode", errField |-> "Rmdir.File.FileFields.Inode"],
     [case |-> "rmdir.file.mode", alloc |-> FALSE, assert |-> "int", how |-> "assign", conv |-> "uint16", attr |-> "Rmdir.File.FileFields.Mode", errField |-> "Rmdir.File.FileFields.Mode"],
     [case |-> "rmdir.file.mount_id", alloc |-> FALSE, assert |-> "int", how |-> "assign", conv |-> "uint32", attr |-> "Rmdir.File.FileFields.MountID", errField |-> "Rmdir.File.FileFields.MountID"],
     [case |-> "rmdir.file.name", alloc |-> FALSE, assert |-> "string", how |-> "assign", conv |-> "", attr |-> "Rmdir.File.BasenameStr", errField |-> "Rmdir.File.BasenameStr"],
     [case |-> "rmdir.file.overlay_numlower", alloc |-> FALSE, assert |-> "int", how |-> "assign", conv |-> "int32", attr |-> "Rmdir.File.FileFields.OverlayNumLower", errField |-> "Rmdir.File.FileFields.OverlayNumLower"],
     [case |-> "rmdir.file.path", alloc |-> FALSE, assert |-> "string", how |-> "assign", conv |-> "", attr |-> "Rmdir.File.PathnameStr", errField |-> "Rmdir.File.PathnameStr"],
     [case |-> "rmdir.file.uid", alloc |-> FALSE, assert |-> "int", how |-> "assign", conv |-> "uint32", attr |-> "Rmdir.File.FileFields.UID", errField |-> "Rmdir.File.FileFields.UID"],
     [case |-> "rmdir.file.user", alloc |-> FALSE, assert |-> "string", how |-> "assign", conv |-> "", attr |-> "Rmdir.File.FileFields.User", errField |-> "Rmdir.File.FileFields.User"],
     [case |-> "rmdir.retval", alloc |-> FALSE, assert |-> "int", how |-> "assign", conv |-> "int64", attr |-> "Rmdir.SyscallEvent.Retval", errField |-> "Rmdir.SyscallEvent.Retval"],
     [case |-> "setgid.egid", alloc |-> FALSE, assert |-> "int", how |-> "assign", conv |-> "uint32", attr |-> "SetGID.EGID", errField |-> "SetGID.EGID"],
     [case |-> "setgid.egroup", alloc |-> FALSE, assert |-> "string", how |-> "assign", conv |-> "", attr |-> "SetGID.EGroup", errField |-> "SetGID.EGroup"],
     [case |-> "setgid.fsgid", alloc |-> FALSE, assert |-> "int", how |-> "assign", conv |-> "uint32", attr |-> "SetGID.FSGID", errField |-> "SetGID.FSGID"],
     [case |-> "setgid.fsgroup", alloc |-> FALSE, assert |-> "string", how |-> "assign", conv |-> "", attr |-> "SetGID.FSGroup", errField |-> "SetGID.FSGroup"],
     [case |-> "setgid.gid", alloc |-> FALSE, assert |-> "int", how |-> "assign", conv |-> "uint32", attr |-> "SetGID.GID", errField |-> "SetGID.GID"],
     [case |-> "setgid.group", alloc |-> FALSE, assert |-> "string", how |-> "assign", conv |-> "", attr |-> "SetGID.Group", errField |-> "SetGID.Group"],
     [case |-> "setuid.euid", alloc |-> FALSE, assert |-> "int", how |-> "assign", conv |-> "uint32", attr |-> "SetUID.EUID", errField |-> "SetUID.EUID"],
     [case |-> "setuid.euser", alloc |-> FALSE, assert |-> "string", how |-> "assign", conv |-> "", attr |-> "SetUID.EUser", errField |-> "SetUID.EUser"],
     [case |-> "setuid.fsuid", alloc |-> FALSE, assert |-> "int", how |-> "assign", conv |-> "uint32", attr |-> "SetUID.FSUID", errField |-> "SetUID.FSUID"],
     [case |-> "setuid.fsuser", alloc |-> FALSE, assert |-> "string", how |-> "assign", conv |-> "", attr |-> "SetUID.FSUser", errField |-> "SetUID.FSUser"],
     [case |-> "setuid.uid", alloc |-> FALSE, assert |-> "int", how |-> "assign", conv |-> "uint32", attr |-> "SetUID.UID", errField |-> "SetUID.UID"],
     [case |-> "setuid.user", alloc |-> FALSE, assert |-> "string", how |-> "assign", conv |-> "", attr |-> "SetUID.User", errField |-> "SetUID.User"],
     [case |-> "setxattr.file.container_path", alloc |-> FALSE, assert |-> "string", how |-> "assign", conv |-> "", attr |-> "SetXAttr.File.ContainerPath", errField |-> "SetXAttr.File.ContainerPath"],
     [case |-> "setxattr.file.destination.name", alloc |-> FALSE, assert |-> "string", how |-> "assign", conv |-> "", attr |-> "SetXAttr.Name", errField |-> "SetXAttr.Name"],
     [case |-> "setxattr.file.destination.namespace", alloc |-> FALSE, assert |-> "string", how |-> "assign", conv |-> "", attr |-> "SetXAttr.Namespace", errField |-> "SetXAttr.Namespace"],
     [case |-> "setxattr.file.gid", alloc |-> FALSE, assert |-> "int", how |-> "assign", conv |-> "uint32", attr |-> "SetXAttr.File.FileFields.GID", errField |-> "SetXAttr.File.FileFields.GID"],
     [case |-> "setxattr.file.group", alloc |-> FALSE, assert |-> "string", how |-> "assign", conv |-> "", attr |-> "SetXAttr.File.FileFields.Group", errField |-> "SetXAttr.File.FileFields.Group"],
     [case |-> "setxattr.file.inode", alloc |-> FALSE, assert |-> "int", how |-> "assign", conv |-> "uint64", attr |-> "SetXAttr.File.FileFields.Inode", errField |-> "SetXAttr.File.FileFields.Inode"],
     [case |-> "setxattr.file.mode", alloc |-> FALSE, assert |-> "int", how |-> "assign", conv |-> "uint16", attr |-> "SetXAttr.File.FileFields.Mode", errField |-> "SetXAttr.File.FileFields.Mode"],
     [case |-> "setxattr.file.mount_id", alloc |-> FALSE, assert |-> "int", how |-> "assign", conv |-> "uint32", attr |-> "SetXAttr.File.FileFields.MountID", errField |-> "SetXAttr.File.FileFields.MountID"],
     [case |-> "setxattr.file.name", alloc |-> FALSE, assert |-> "string", how |-> "assign", conv |-> "", attr |-> "SetXAttr.File.BasenameStr", errField |-> "SetXAttr.File.BasenameStr"],
     [case |-> "setxattr.file.overlay_numlower", alloc |-> FALSE, assert |-> "int", how |-> "assign", conv |-> "int32", attr |-> "SetXAttr.File.FileFields.OverlayNumLower", errField |-> "SetXAttr.File.FileFields.OverlayNumLower"],
     [case |-> "setxattr.file.path", alloc |-> FALSE, assert |-> "string", how |-> "assign", conv |-> "", attr |-> "SetXAttr.File.PathnameStr", errField |-> "SetXAttr.File.PathnameStr"],
     [case |-> "setxattr.file.uid", alloc |-> FALSE, assert |-> "int", how |-> "assign", conv |-> "uint32", attr |-> "SetXAttr.File.FileFields.UID", errField |-> "SetXAttr.File.FileFields.UID"],
     [case |-> "setxattr.file.user", alloc |-> FALSE, assert |-> "string", how |-> "assign", conv |-> "", attr |-> "SetXAttr.File.FileFields.User", errField |-> "SetXAttr.File.FileFields.User"],
     [case |-> "setxattr.retval", alloc |-> FALSE, assert |-> "int", how |-> "assign", conv |-> "int64", attr |-> "SetXAttr.SyscallEvent.Retval", errField |-> "SetXAttr.SyscallEvent.Retval"],
     [case |-> "unlink.file.container_path", alloc |-> FALSE, assert |-> "string", how |-> "assign", conv |-> "", attr |-> "Unlink.File.ContainerPath", errField |-> "Unlink.File.ContainerPath"],
     [case |-> "unlink.file.gid", alloc |-> FALSE, assert |-> "int", how |-> "assign", conv |-> "uint32", attr |-> "Unlink.File.FileFields.GID", errField |-> "Unlink.File.FileFields.GID"],
     [case |-> "unlink.file.group", alloc |-> FALSE, assert |-> "string", how |-> "assign", conv |-> "", attr |-> "Unlink.File.FileFields.Group", errField |-> "Unlink.File.FileFields.Group"],
     [case |-> "unlink.file.inode", alloc |-> FALSE, assert |-> "int", how |-> "assign", conv |-> "uint64", attr |-> "Unlink.File.FileFields.Inode", errField |-> "Unlink.File.FileFields.Inode"],
     [case |-> "unlink.file.mode", alloc |-> FALSE, assert |-> "int", how |-> "assign", conv |-> "uint16", attr |-> "Unlink.File.FileFields.Mode", errField |-> "Unlink.File.FileFields.Mode"],
     [case |-> "unlink.file.mount_id", alloc |-> FALSE, assert |-> "int", how |-> "assign", conv |-> "uint32", attr |-> "Unlink.File.FileFields.MountID", errField |-> "Unlink.File.FileFields.MountID"],
     [case |-> "unlink.file.name", alloc |-> FALSE, assert |-> "string", how |-> "assign", conv |-> "", attr |-> "Unlink.File.BasenameStr", errField |-> "Unlink.File.BasenameStr"],
     [case |-> "unlink.file.overlay_numlower", alloc |-> FALSE, assert |-> "int", how |-> "assign", conv |-> "int32", attr |-> "Unlink.File.FileFields.OverlayNumLower", errField |-> "Unlink.File.FileFields.OverlayNumLower"],
     [case |-> "unlink.file.path", alloc |-> FALSE, assert |-> "string", how |-> "assign", conv |-> "", attr |-> "Unlink.File.PathnameStr", errField |-> "Unlink.File.PathnameStr"],
     [case |-> "unlink.file.uid", alloc |-> FALSE, assert |-> "int", how |-> "assign", conv |-> "uint32", attr |-> "Unlink.File.FileFields.UID", errField |-> "Unlink.File.FileFields.UID"],
     [case |-> "unlink.file.user", alloc |-> FALSE, assert |-> "string", how |-> "assign", conv |-> "", attr |-> "Unlink.File.FileFields.User", errField |-> "Unlink.File.FileFields.User"],
     [case |-> "unlink.retval", alloc |-> FALSE, assert |-> "int", how |-> "assign", conv |-> "int64", attr |-> "Unlink.SyscallEvent.Retval", errField |-> "Unlink.SyscallEvent.Retval"],
     [case |-> "utimes.file.container_path", alloc |-> FALSE, assert |-> "string", how |-> "assign", conv |-> "", attr |-> "Utimes.File.ContainerPath", errField |-> "Utimes.File.ContainerPath"],
     [case |-> "utimes.file.gid", alloc |-> FALSE, assert |-> "int", how |-> "assign", conv |-> "uint32", attr |-> "Utimes.File.FileFields.GID", errField |-> "Utimes.File.FileFields.GID"],
     [case |-> "utimes.file.group", alloc |-> FALSE, assert |-> "string", how |-> "assign", conv |-> "", attr |-> "Utimes.File.FileFields.Group", errField |-> "Utimes.File.FileFields.Group"],
     [case |-> "utimes.file.inode", alloc |-> FALSE, assert |-> "int", how |-> "assign", conv |-> "uint64", attr |-> "Utimes.File.FileFields.Inode", errField |-> "Utimes.File.FileFields.Inode"],
     [case |-> "utimes.file.mode", alloc |-> FALSE, assert |-> "int", how |-> "assign", conv |-> "uint16", attr |-> "Utimes.File.FileFields.Mode", errField |-> "Utimes.File.FileFields.Mode"],
     [case |-> "utimes.file.mount_id", alloc |-> FALSE, assert |-> "int", how |-> "assign", conv |-> "uint32", attr |-> "Utimes.File.FileFields.MountID", errField |-> "Utimes.File.FileFields.MountID"],
     [case |-> "utimes.file.name", alloc |-> FALSE, assert |-> "string", how |-> "assign", conv |-> "", attr |-> "Utimes.File.BasenameStr", errField |-> "Utimes.File.BasenameStr"],
     [case |-> "utimes.file.overlay_numlower", alloc |-> FALSE, assert |-> "int", how |-> "assign", conv |-> "int32", attr |-> "Utimes.File.FileFields.OverlayNumLower", errField |-> "Utimes.File.FileFields.OverlayNumLower"],
     [case |-> "utimes.file.path", alloc |-> FALSE, assert |-> "string", how |-> "assign", conv |-> "", attr |-> "Utimes.File.PathnameStr", errField |-> "Utimes.File.PathnameStr"],
     [case |-> "utimes.file.uid", alloc |-> FALSE, assert |-> "int", how |-> "assign", conv |-> "uint32", attr |-> "Utimes.File.FileFields.UID", errField |-> "Utimes.File.FileFields.UID"],
     [case |-> "utimes.file.user", alloc |-> FALSE, assert |-> "string", how |-> "assign", conv |-> "", attr |-> "Utimes.File.FileFields.User", errField |-> "Utimes.File.FileFields.User"],
     [case |-> "utimes.retval", alloc |-> FALSE, assert |-> "int", how |-> "assign", conv |-> "int64", attr |-> "Utimes.SyscallEvent.Retval", errField |-> "Utimes.SyscallEvent.Retval"] >>

(* the paths of GetFields, in the same order, each split at its dots *)
FieldComponents ==
  << <<"capset", "cap_effective">>,
     <<"capset", "cap_permitted">>,
     <<"chmod", "file", "container_path">>,
     <<"chmod", "file", "destination", "mode">>,
     <<"chmod", "file", "gid">>,
     <<"chmod", "file", "group">>,
     <<"chmod", "file", "inode">>,
     <<"chmod", "file", "mode">>,
     <<"chmod", "file", "mount_id">>,
     <<"chmod", "file", "name">>,
     <<"chmod", "file", "overlay_numlower">>,
     <<"chmod", "file", "path">>,
     <<"chmod", "file", "uid">>,
     <<"chmod", "file", "user">>,
     <<"chmod", "retval">>,
     <<"chown", "file", "container_path">>,
     <<"chown", "file", "destination", "gid">>,
     <<"chown", "file", "destination", "group">>,
     <<"chown", "file", "destination", "uid">>,
     <<"chown", "file", "destination", "user">>,
     <<"chown", "file", "gid">>,
     <<"chown", "file", "group">>,
     <<"chown", "file", "inode">>,
     <<"chown", "file", "mode">>,
     <<"chown", "file", "mount_id">>,
     <<"chown", "file", "name">>,
     <<"chown", "file", "overlay_numlower">>,
     <<"chown", "file", "path">>,
     <<"chown", "file", "uid">>,
     <<"chown", "file", "user">>,
     <<"chown", "retval">>,
     <<"container", "id">>,
     <<"exec", "args">>,
     <<"exec", "args_truncated">>,
     <<"exec", "cap_effective">>,
     <<"exec", "cap_permitted">>,
     <<"exec", "comm">>,
     <<"exec", "cookie">>,
     <<"exec", "egid">>,
     <<"exec", "egroup">>,
     <<"exec", "envs">>,
     <<"exec", "envs_truncated">>,
     <<"exec", "euid">>,
     <<"exec", "euser">>,
     <<"exec", "file", "container_path">>,
     <<"exec", "file", "gid">>,
     <<"exec", "file", "group">>,
     <<"exec", "file", "inode">>,
     <<"exec", "file", "mode">>,
     <<"exec", "file", "mount_id">>,
     <<"exec", "file", "name">>,
     <<"exec", "file", "overlay_numlower">>,
     <<"exec", "file", "path">>,
     <<"exec", "file", "uid">>,
     <<"exec", "file", "user">>,
     <<"exec", "fsgid">>,
     <<"exec", "fsgroup">>,
     <<"exec", "fsuid">>,
     <<"exec", "fsuser">>,
     <<"exec", "gid">>,
     <<"exec", "group">>,
     <<"exec", "ppid">>,
     <<"exec", "tty_name">>,
     <<"exec", "uid">>,
     <<"exec", "user">>,
     <<"link", "file", "container_path">>,
     <<"link", "file", "destination", "container_path">>,
     <<"link", "file", "destination", "gid">>,
     <<"link", "file", "destination", "group">>,
     <<"link", "file", "destination", "inode">>,
     <<"link", "file", "destination", "mode">>,
     <<"link", "file", "destination", "mount_id">>,
     <<"link", "file", "destination", "name">>,
     <<"link", "file", "destination", "overlay_numlower">>,
     <<"link", "file", "destination", "path">>,
     <<"link", "file", "destination", "uid">>,
     <<"link", "file", "destination", "user">>,
     <<"link", "file", "gid">>,
     <<"link", "file", "group">>,
     <<"link", "file", "inode">>,
     <<"link", "file", "mode">>,
     <<"link", "file", "mount_id">>,
     <<"link", "file", "name">>,
     <<"link", "file", "overlay_numlower">>,
     <<"link", "file", "path">>,
     <<"link", "file", "uid">>,
     <<"link", "file", "user">>,
     <<"link", "retval">>,
     <<"mkdir", "file", "container_path">>,
     <<"mkdir", "file", "destination", "mode">>,
     <<"mkdir", "file", "gid">>,
     <<"mkdir", "file", "group">>,
     <<"mkdir", "file", "inode">>,
     <<"mkdir", "file", "mode">>,
     <<"mkdir", "file", "mount_id">>,
     <<"mkdir", "file", "name">>,
     <<"mkdir", "file", "overlay_numlower">>,
     <<"mkdir", "file", "path">>,
     <<"mkdir", "file", "uid">>,
     <<"mkdir", "file", "user">>,
     <<"mkdir", "retval">>,
     <<"open", "file", "container_path">>,
     <<"open", "file", "destination", "mode">>,
     <<"open", "file", "gid">>,
     <<"open", "file", "group">>,
     <<"open", "file", "inode">>,
     <<"open", "file", "mode">>,
     <<"open", "file", "mount_id">>,
     <<"open", "file", "name">>,
     <<"open", "file", "overlay_numlower">>,
     <<"open", "file", "path">>,
     <<"open", "file", "uid">>,
     <<"open", "file", "user">>,
     <<"open", "flags">>,
     <<"open", "retval">>,
     <<"process", "ancestors", "cap_effective">>,
     <<"process", "ancestors", "cap_permitted">>,
     <<"process", "ancestors", "comm">>,
     <<"process", "ancestors", "cookie">>,
     <<"process", "ancestors", "egid">>,
     <<"process", "ancestors", "egroup">>,
     <<"process", "ancestors", "euid">>,
     <<"process", "ancestors", "euser">>,
     <<"process", "ancestors", "file", "container_path">>,
     <<"process", "ancestors", "file", "gid">>,
     <<"process", "ancestors", "file", "group">>,
     <<"process", "ancestors", "file", "inode">>,
     <<"process", "ancestors", "file", "mode">>,
     <<"process", "ancestors", "file", "mount_id">>,
     <<"process", "ancestors", "file", "name">>,
     <<"process", "ancestors", "file", "overlay_numlower">>,
     <<"process", "ancestors", "file", "path">>,
     <<"process", "ancestors", "file", "uid">>,
     <<"process", "ancestors", "file", "user">>,
     <<"process", "ancestors", "fsgid">>,
     <<"process", "ancestors", "fsgroup">>,
     <<"process", "ancestors", "fsuid">>,
     <<"process", "ancestors", "fsuser">>,
     <<"process", "ancestors", "gid">>,
     <<"process", "ancestors", "group">>,
     <<"process", "ancestors", "id">>,
     <<"process", "ancestors", "pid">>,
     <<"process", "ancestors", "ppid">>,
     <<"process", "ancestors", "tid">>,
     <<"process", "ancestors", "tty_name">>,
     <<"process", "ancestors", "uid">>,
     <<"process", "ancestors", "user">>,
     <<"process", "cap_effective">>,
     <<"process", "cap_permitted">>,
     <<"process", "comm">>,
     <<"process", "cookie">>,
     <<"process", "egid">>,
     <<"process", "egroup">>,
     <<"process", "euid">>,
     <<"process", "euser">>,
     <<"process", "file", "container_path">>,
     <<"process", "file", "gid">>,
     <<"process", "file", "group">>,
     <<"process", "file", "inode">>,
     <<"process", "file", "mode">>,
     <<"process", "file", "mount_id">>,
     <<"process", "file", "name">>,
     <<"process", "file", "overlay_numlower">>,
     <<"process", "file", "path">>,
     <<"process", "file", "uid">>,
     <<"process", "file", "user">>,
     <<"process", "fsgid">>,
     <<"process", "fsgroup">>,
     <<"process", "fsuid">>,
     <<"process", "fsuser">>,
     <<"process", "gid">>,
     <<"process", "group">>,
     <<"process", "pid">>,
     <<"process", "ppid">>,
     <<"process", "tid">>,
     <<"process", "tty_name">>,
     <<"process", "uid">>,
     <<"process", "user">>,
     <<"removexattr", "file", "container_path">>,
     <<"removexattr", "file", "destination", "name">>,
     <<"removexattr", "file", "destination", "namespace">>,
     <<"removexattr", "file", "gid">>,
     <<"removexattr", "file", "group">>,
     <<"removexattr", "file", "inode">>,
     <<"removexattr", "file", "mode">>,
     <<"removexattr", "file", "mount_id">>,
     <<"removexattr", "file", "name">>,
     <<"removexattr", "file", "overlay_numlower">>,
     <<"removexattr", "file", "path">>,
     <<"removexattr", "file", "uid">>,
     <<"removexattr", "file", "user">>,
     <<"removexattr", "retval">>,
     <<"rename", "file", "container_path">>,
     <<"rename", "file", "destination", "container_path">>,
     <<"rename", "file", "destination", "gid">>,
     <<"rename", "file", "destination", "group">>,
     <<"rename", "file", "destination", "inode">>,
     <<"rename", "file", "destination", "mode">>,
     <<"rename", "file", "destination", "mount_id">>,
     <<"rename", "file", "destination", "name">>,
     <<"rename", "file", "destination", "overlay_numlower">>,
     <<"rename", "file", "destination", "path">>,
     <<"rename", "file", "destination", "uid">>,
     <<"rename", "file", "destination", "user">>,
     <<"rename", "file", "gid">>,
     <<"rename", "file", "group">>,
     <<"rename", "file", "inode">>,
     <<"rename", "file", "mode">>,
     <<"rename", "file", "mount_id">>,
     <<"rename", "file", "name">>,
     <<"rename", "file", "overlay_numlower">>,
     <<"rename", "file", "path">>,
     <<"rename", "file", "uid">>,
     <<"rename", "file", "user">>,
     <<"rename", "retval">>,
     <<"rmdir", "file", "container_path">>,
     <<"rmdir", "file", "gid">>,
     <<"rmdir", "file", "group">>,
     <<"rmdir", "file", "inode">>,
     <<"rmdir", "file", "mode">>,
     <<"rmdir", "file", "mount_id">>,
     <<"rmdir", "file", "name">>,
     <<"rmdir", "file", "overlay_numlower">>,
     <<"rmdir", "file", "path">>,
     <<"rmdir", "file", "uid">>,
     <<"rmdir", "file", "user">>,
     <<"rmdir", "retval">>,
     <<"setgid", "egid">>,
     <<"setgid", "egroup">>,
     <<"setgid", "fsgid">>,
     <<"setgid", "fsgroup">>,
     <<"setgid", "gid">>,
     <<"setgid", "group">>,
     <<"setuid", "euid">>,
     <<"setuid", "euser">>,
     <<"setuid", "fsuid">>,
     <<"setuid", "fsuser">>,
     <<"setuid", "uid">>,
     <<"setuid", "user">>,
     <<"setxattr", "file", "container_path">>,
     <<"setxattr", "file", "destination", "name">>,
     <<"setxattr", "file", "destination", "namespace">>,
     <<"setxattr", "file", "gid">>,
     <<"setxattr", "file", "group">>,
     <<"setxattr", "file", "inode">>,
     <<"setxattr", "file", "mode">>,
     <<"setxattr", "file", "mount_id">>,
     <<"setxattr", "file", "name">>,
     <<"setxattr", "file", "overlay_numlower">>,
     <<"setxattr", "file", "path">>,
     <<"setxattr", "file", "uid">>,
     <<"setxattr", "file", "user">>,
     <<"setxattr", "retval">>,
     <<"unlink", "file", "container_path">>,
     <<"unlink", "file", "gid">>,
     <<"unlink", "file", "group">>,
     <<"unlink", "file", "inode">>,
     <<"unlink", "file", "mode">>,
     <<"unlink", "file", "mount_id">>,
     <<"unlink", "file", "name">>,
     <<"unlink", "file", "overlay_numlower">>,
     <<"unlink", "file", "path">>,
     <<"unlink", "file", "uid">>,
     <<"unlink", "file", "user">>,
     <<"unlink", "retval">>,
     <<"utimes", "file", "container_path">>,
     <<"utimes", "file", "gid">>,
     <<"utimes", "file", "group">>,
     <<"utimes", "file", "inode">>,
     <<"utimes", "file", "mode">>,
     <<"utimes", "file", "mount_id">>,
     <<"utimes", "file", "name">>,
     <<"utimes", "file", "overlay_numlower">>,
     <<"utimes", "file", "path">>,
     <<"utimes", "file", "uid">>,
     <<"utimes", "file", "user">>,
     <<"utimes", "retval">> >>

(***************************************************************************)
(* Switch dispatch: the index of the case a field selects, 0 for none.     *)
(***************************************************************************)
CaseIndex(cases) ==
  [f \in {cases[i].case : i \in DOMAIN cases} |->
      CHOOSE i \in DOMAIN cases : cases[i].case = f]

GetEvaluatorIndex == CaseIndex(GetEvaluatorCases)

GetFieldValueIndex == CaseIndex(GetFieldValueCases)

GetFieldEventTypeIndex == CaseIndex(GetFieldEventTypeCases)

GetFieldTypeIndex == CaseIndex(GetFieldTypeCases)

SetFieldValueIndex == CaseIndex(SetFieldValueCases)

(***************************************************************************)
(* Go values.  An int is 64 bits wide; it is kept as its two's complement  *)
(* bit pattern in four 16-bit limbs, least significant first, so that the  *)
(* fixed-width conversions of the accessors act on it as they do in Go.    *)
(* A dynamic value (interface{}) carries its type: [t, v].                 *)
(***************************************************************************)
LimbBits == 16

LimbMod == 2 ^ LimbBits

AllOnes == LimbMod - 1

SignBit == 2 ^ (LimbBits - 1)

IntValue(limbs) == [t |-> "int", v |-> limbs]

StringValue(s) == [t |-> "string", v |-> s]

BoolValue(b) == [t |-> "bool", v |-> b]

IntsValue(s) == [t |-> "[]int", v |-> s]

StringsValue(s) == [t |-> "[]string", v |-> s]

(* a conversion that saturates: an int wider than the attribute is stored
   as the attribute's largest bit pattern *)
ConvertIntSaturating(conv, v) ==
  CASE conv = "uint16" -> IF v[2] = 0 /\ v[3] = 0 /\ v[4] = 0 THEN <<v[1]>>
                          ELSE <<AllOnes>>
    [] conv = "uint32" -> IF v[3] = 0 /\ v[4] = 0 THEN <<v[1], v[2]>>
                          ELSE <<AllOnes, AllOnes>>
    [] conv = "int32"  -> <<v[1], v[2]>>
    [] conv = "uint64" -> v
    [] conv = "int64"  -> v

(* uintN(v), intN(v) of an int v: the low bits, in the attribute's width *)
ConvertInt(conv, v) ==
  CASE conv = "uint16" -> <<v[1]>>
    [] conv = "uint32" -> <<v[1], v[2]>>
    [] conv = "int32"  -> <<v[1], v[2]>>
    [] conv = "uint64" -> v
    [] conv = "int64"  -> v

(* int(x) that zero-extends an int32 as if it were unsigned *)
ToIntUnsigned(typ, x) ==
  CASE typ = "uint16" -> <<x[1], 0, 0, 0>>
    [] typ = "uint32" -> <<x[1], x[2], 0, 0>>
    [] typ = "int32"  -> <<x[1], x[2], 0, 0>>
    [] typ = "uint64" -> x
    [] typ = "int64"  -> x

(* int(x) of an attribute x of the fixed-width type typ *)
ToInt(typ, x) ==
  CASE typ = "uint16" -> <<x[1], 0, 0, 0>>
    [] typ = "uint32" -> <<x[1], x[2], 0, 0>>
    [] typ = "int32"  -> IF x[2] >= SignBit
                          THEN <<x[1], x[2], AllOnes, AllOnes>>
                          ELSE <<x[1], x[2], 0, 0>>
    [] typ = "uint64" -> x
    [] typ = "int64"  -> x

(* the Go zero value of an attribute of type typ *)
ZeroOf(typ) ==
  CASE typ = "uint16" -> <<0>>
    [] typ = "uint32" -> <<0, 0>>
    [] typ = "int32"  -> <<0, 0>>
    [] typ = "uint64" -> <<0, 0, 0, 0>>
    [] typ = "int64"  -> <<0, 0, 0, 0>>
    [] typ = "string" -> ""
    [] typ = "bool"   -> FALSE
    [] typ = "[]string" -> <<>>

(* the zero value of the result variable of an evaluator ("var result T") *)
ZeroResult(variant) ==
  CASE variant = "IntEvaluator"    -> IntValue(<<0, 0, 0, 0>>)
    [] variant = "StringEvaluator" -> StringValue("")
    [] variant = "BoolEvaluator"   -> BoolValue(FALSE)

(***************************************************************************)
(* The attributes of the Event and of a ProcessCacheEntry that the         *)
(* accessors name, with the Go type the SetFieldValue case stores into it. *)
(***************************************************************************)
AttrTypeOfCase(c) ==
  CASE c.how = "append" -> "[]string"
    [] c.conv # ""      -> c.conv
    [] OTHER            -> c.assert

EventAttrType ==
  LET idx == {i \in DOMAIN SetFieldValueCases : ~SetFieldValueCases[i].alloc}
  IN  [a \in {SetFieldValueCases[i].attr : i \in idx} |->
         AttrTypeOfCase(SetFieldValueCases[
            CHOOSE i \in idx : SetFieldValueCases[i].attr = a])]

EntryAttrType ==
  LET idx == {i \in DOMAIN SetFieldValueCases : SetFieldValueCases[i].alloc}
  IN  [a \in {SetFieldValueCases[i].attr : i \in idx} |->
         AttrTypeOfCase(SetFieldValueCases[
            CHOOSE i \in idx : SetFieldValueCases[i].attr = a])]

EventAttrs == DOMAIN EventAttrType

EntryAttrs == DOMAIN EntryAttrType

(* &ProcessCacheEntry{}: every attribute zero, no Ancestor *)
NewProcessCacheEntry == [a \in EntryAttrs |-> ZeroOf(EntryAttrType[a])]

(* an Event as constructed: every attribute zero, Ancestor nil *)
NewEvent ==
  [attrs |-> [a \in EventAttrs |-> ZeroOf(EventAttrType[a])], Ancestor |-> <<>>]

(***************************************************************************)
(* Errors (returned values) and handles.                                   *)
(***************************************************************************)
NoError == [kind |-> "nil", Field |-> ""]

ErrFieldNotFound(field) == [kind |-> "ErrFieldNotFound", Field |-> field]

ErrIteratorNotSupported(field) == [kind |-> "ErrIteratorNotSupported", Field |-> field]

ErrValueTypeMismatch(field) == [kind |-> "ErrValueTypeMismatch", Field |-> field]

(* an unsafe.Pointer to an element: into Exec.Args, Exec.Envs or the Ancestor chain *)
NilPtr == [seq |-> "nil", i |-> 0]

ElemPtr(seq, i) == [seq |-> seq, i |-> i]

(***************************************************************************)
(* Model.GetIterator                                                       *)
(***************************************************************************)
(* GetIterator with the "exec.envs" case left out *)
GetIteratorWithoutEnvs(field) ==
  CASE field = "exec.args" -> [iterator |-> "ExecArgsIterator", err |-> NoError]
    [] field = "process.ancestors" ->
         [iterator |-> "ProcessAncestorsIterator", err |-> NoError]
    [] OTHER -> [iterator |-> "nil", err |-> ErrIteratorNotSupported(field)]

(* a Model that keeps one iterator and hands it out once: GetIterator fails
   as soon as some thread holds an iterator *)
GetIteratorOnce(field) ==
  IF \E t \in DOMAIN threads : threads[t].iterator.iterator # "nil"
    THEN [iterator |-> "nil", err |-> ErrIteratorNotSupported(field)]
    ELSE GetIteratorWithoutEnvs(field)

GetIterator(field) ==
  CASE field = "exec.args" -> [iterator |-> "ExecArgsIterator", err |-> NoError]
    [] field = "exec.envs" -> [iterator |-> "ExecEnvsIterator", err |-> NoError]
    [] field = "process.ancestors" ->
         [iterator |-> "ProcessAncestorsIterator", err |-> NoError]
    [] OTHER -> [iterator |-> "nil", err |-> ErrIteratorNotSupported(field)]

(***************************************************************************)
(* Model.GetEvaluator: the evaluator of the selected case, bound to field  *)
(* and regID, or ErrFieldNotFound from the code after the switch.          *)
(***************************************************************************)
NilEvaluator ==
  [variant |-> "nil", Field |-> "", Weight |-> "", reg |-> FALSE, obj |-> "",
   attr |-> "", int |-> FALSE, regID |-> 0]

(* a Model that remembers the register id of the first thread that asked
   for an evaluator and binds every later evaluator to it *)
GetEvaluatorCachedRegister(field, regID) ==
  LET callers == {t \in DOMAIN threads : threads[t].pc # "start"}
      cached == IF callers = {} THEN regID
                ELSE threads[CHOOSE t \in callers : \A u \in callers : t <= u].regID
  IN  IF field \in DOMAIN GetEvaluatorIndex
        THEN LET c == GetEvaluatorCases[GetEvaluatorIndex[field]]
             IN  [evaluator |-> [variant |-> c.variant, Field |-> field,
                                 Weight |-> c.weight, reg |-> c.reg, obj |-> c.obj,
                                 attr |-> c.attr, int |-> c.int, regID |-> cached],
                  err |-> NoError]
        ELSE [evaluator |-> NilEvaluator, err |-> ErrFieldNotFound(field)]

(* a GetEvaluator that weighs an evaluator by its result kind alone *)
GetEvaluatorWeightByKind(field, regID) ==
  IF field \in DOMAIN GetEvaluatorIndex
    THEN LET c == GetEvaluatorCases[GetEvaluatorIndex[field]]
         IN  [evaluator |-> [variant |-> c.variant, Field |-> field,
                             Weight |-> IF c.variant = "StringEvaluator"
                                        THEN "HandlerWeight" ELSE "FunctionWeight",
                             reg |-> c.reg, obj |-> c.obj,
                             attr |-> c.attr, int |-> c.int, regID |-> regID],
              err |-> NoError]
    ELSE [evaluator |-> NilEvaluator, err |-> ErrFieldNotFound(field)]

(* GetEvaluator whose chmod.file.mode case reads the mode the chmod sets,
   the attribute of chmod.file.destination.mode *)
GetEvaluatorDestinationMode(field, regID) ==
  IF field \in DOMAIN GetEvaluatorIndex
    THEN LET c == GetEvaluatorCases[GetEvaluatorIndex[field]]
         IN  [evaluator |-> [variant |-> c.variant, Field |-> field,
                             Weight |-> c.weight, reg |-> c.reg, obj |-> c.obj,
                             attr |-> IF field = "chmod.file.mode" THEN "Chmod.Mode"
                                      ELSE c.attr,
                             int |-> c.int, regID |-> regID],
              err |-> NoError]
    ELSE [evaluator |-> NilEvaluator, err |-> ErrFieldNotFound(field)]

GetEvaluator(field, regID) ==
  IF field \in DOMAIN GetEvaluatorIndex
    THEN LET c == GetEvaluatorCases[GetEvaluatorIndex[field]]
         IN  [evaluator |-> [variant |-> c.variant, Field |-> field,
                             Weight |-> c.weight, reg |-> c.reg, obj |-> c.obj,
                             attr |-> c.attr, int |-> c.int, regID |-> regID],
              err |-> NoError]
    ELSE [evaluator |-> NilEvaluator, err |-> ErrFieldNotFound(field)]

(***************************************************************************)
(* Reading one attribute the way a case's expression does: int(x) for the  *)
(* integer cases, the attribute itself for string and bool.                *)
(***************************************************************************)
ReadAttr(typ, x, asInt) ==
  IF asInt THEN IntValue(ToInt(typ, x))
  ELSE IF typ = "bool" THEN BoolValue(x)
  ELSE StringValue(x)

ReadEvent(e, attr, asInt) == ReadAttr(EventAttrType[attr], e.attrs[attr], asInt)

ReadEntry(entry, attr, asInt) == ReadAttr(EntryAttrType[attr], entry[attr], asInt)

(* what an element pointer refers to in the Event it was taken from *)
ElementAt(e, ptr) ==
  CASE ptr.seq = "ancestors" -> e.Ancestor[ptr.i]
    [] ptr.seq = "args" -> e.attrs["Exec.Args"][ptr.i]
    [] ptr.seq = "envs" -> e.attrs["Exec.Envs"][ptr.i]

(* a case that dereferences the head of the iterated strings, not the element *)
ElementResultHeadString(e, obj, attr, asInt, ptr) ==
  IF obj = "*string" THEN StringValue(ElementAt(e, ElemPtr(ptr.seq, 1)))
  ELSE ReadEntry(ElementAt(e, ptr), attr, asInt)

(* "result = ..." of an iterator-scoped case on the element ptr points to *)
ElementResult(e, obj, attr, asInt, ptr) ==
  IF obj = "*string" THEN StringValue(ElementAt(e, ptr))
  ELSE ReadEntry(ElementAt(e, ptr), attr, asInt)

(***************************************************************************)
(* Running an evaluator's EvalFnc on a context [Object, Registers].        *)
(***************************************************************************)
(* EvalFnc reading register 0 whatever regID the evaluator was built with *)
EvalFncRegisterZero(ev, ctx) ==
  IF ~ev.reg
    THEN ReadEvent(ctx.Object, ev.attr, ev.int)
    ELSE LET reg == ctx.Registers[0]
         IN  IF reg # NilPtr
               THEN ElementResult(ctx.Object, ev.obj, ev.attr, ev.int, reg)
               ELSE ZeroResult(ev.variant)

(* EvalFnc reading the lowest Register that holds an element, and a direct
   read that gives the zero value while its own Register holds none *)
EvalFncAnyRegister(ev, ctx) ==
  LET held == {r \in DOMAIN ctx.Registers : ctx.Registers[r] # NilPtr}
  IN  IF ~ev.reg
        THEN IF ev.regID \in held THEN ZeroResult(ev.variant)
             ELSE ReadEvent(ctx.Object, ev.attr, ev.int)
        ELSE IF held # {}
               THEN ElementResult(ctx.Object, ev.obj, ev.attr, ev.int,
                                  ctx.Registers[CHOOSE r \in held :
                                                  \A q \in held : r <= q])
               ELSE ZeroResult(ev.variant)

EvalFnc(ev, ctx) ==
  IF ~ev.reg
    THEN ReadEvent(ctx.Object, ev.attr, ev.int)
    ELSE LET reg == ctx.Registers[ev.regID]
         IN  IF reg # NilPtr
               THEN ElementResult(ctx.Object, ev.obj, ev.attr, ev.int, reg)
               ELSE ZeroResult(ev.variant)

(***************************************************************************)
(* The iterators.  An instance is [state, pos]: NotStarted, Positioned on  *)
(* element pos, or Exhausted.  Front and Next return the instance as       *)
(* changed and the pointer yielded (NilPtr at the end).                    *)
(***************************************************************************)
NewIterator == [state |-> "NotStarted", pos |-> 0]

IteratorSeq(iterator) ==
  CASE iterator = "ExecArgsIterator" -> "args"
    [] iterator = "ExecEnvsIterator" -> "envs"
    [] iterator = "ProcessAncestorsIterator" -> "ancestors"

IteratedLen(e, iterator) ==
  CASE iterator = "ExecArgsIterator" -> Len(e.attrs["Exec.Args"])
    [] iterator = "ExecEnvsIterator" -> Len(e.attrs["Exec.Envs"])
    [] iterator = "ProcessAncestorsIterator" -> Len(e.Ancestor)

IteratorFront(iterator, e) ==
  IF IteratedLen(e, iterator) > 0
    THEN [it |-> [state |-> "Positioned", pos |-> 1],
          ptr |-> ElemPtr(IteratorSeq(iterator), 1)]
    ELSE [it |-> [state |-> "Exhausted", pos |-> 0], ptr |-> NilPtr]

IteratorNext(iterator, it, e) ==
  IF it.state = "Positioned" /\ it.pos < IteratedLen(e, iterator)
    THEN [it |-> [state |-> "Positioned", pos |-> it.pos + 1],
          ptr |-> ElemPtr(IteratorSeq(iterator), it.pos + 1)]
    ELSE [it |-> [state |-> "Exhausted", pos |-> 0], ptr |-> NilPtr]

(***************************************************************************)
(* Event.GetFieldValue                                                     *)
(***************************************************************************)
RECURSIVE CollectValuesAfterNext(_, _, _, _)
(* a loop that calls iterator.Next() before it reads the element *)
CollectValuesAfterNext(e, c, it, ptr) ==
  IF ptr = NilPtr THEN <<>>
  ELSE LET n == IteratorNext(c.iterator, it, e)
       IN  IF n.ptr = NilPtr THEN <<>>
           ELSE <<ElementResult(e, IF c.iterator = "ProcessAncestorsIterator"
                                     THEN "*ProcessCacheEntry" ELSE "*string",
                                c.attr, c.int, n.ptr).v>>
                \o CollectValuesAfterNext(e, c, n.it, n.ptr)

RECURSIVE CollectValues(_, _, _, _)
(* the "for ptr != nil" loop of an iterator-scoped case *)
CollectValues(e, c, it, ptr) ==
  IF ptr = NilPtr THEN <<>>
  ELSE LET result == ElementResult(e, IF c.iterator = "ProcessAncestorsIterator"
                                        THEN "*ProcessCacheEntry" ELSE "*string",
                                   c.attr, c.int, ptr)
           n == IteratorNext(c.iterator, it, e)
       IN  <<result.v>> \o CollectValues(e, c, n.it, n.ptr)

GetFieldValue(e, field) ==
  IF field \in DOMAIN GetFieldValueIndex
    THEN LET c == GetFieldValueCases[GetFieldValueIndex[field]]
         IN  IF c.iterator = ""
               THEN [value |-> ReadEvent(e, c.attr, c.int), err |-> NoError]
               ELSE LET f == IteratorFront(c.iterator, e)
                        values == CollectValues(e, c, f.it, f.ptr)
                    IN  [value |-> IF c.int THEN IntsValue(values)
                                   ELSE StringsValue(values),
                         err |-> NoError]
    ELSE [value |-> [t |-> "nil", v |-> 0], err |-> ErrFieldNotFound(field)]

(***************************************************************************)
(* Event.GetFieldEventType, Event.GetFieldType                             *)
(***************************************************************************)
(* GetFieldEventType whose container.id case returns "container" *)
GetFieldEventTypeContainerKind(field) ==
  IF field \in DOMAIN GetFieldEventTypeIndex
    THEN [ret |-> IF field = "container.id" THEN "container"
                  ELSE GetFieldEventTypeCases[GetFieldEventTypeIndex[field]].ret,
          err |-> NoError]
    ELSE [ret |-> "", err |-> ErrFieldNotFound(field)]

(* GetFieldEventType that also answers for the prefixes GetIterator accepts *)
GetFieldEventTypeOfPrefix(field) ==
  IF field \in DOMAIN GetFieldEventTypeIndex
    THEN [ret |-> GetFieldEventTypeCases[GetFieldEventTypeIndex[field]].ret,
          err |-> NoError]
    ELSE IF GetIterator(field).err = NoError
           THEN [ret |-> "*", err |-> NoError]
           ELSE [ret |-> "", err |-> ErrFieldNotFound(field)]

GetFieldEventType(field) ==
  IF field \in DOMAIN GetFieldEventTypeIndex
    THEN [ret |-> GetFieldEventTypeCases[GetFieldEventTypeIndex[field]].ret,
          err |-> NoError]
    ELSE [ret |-> "", err |-> ErrFieldNotFound(field)]

(* GetFieldType reporting reflect.Int for the boolean fields *)
GetFieldTypeBoolAsInt(field) ==
  IF field \in DOMAIN GetFieldTypeIndex
    THEN LET ret == GetFieldTypeCases[GetFieldTypeIndex[field]].ret
         IN  [ret |-> IF ret = "reflect.Bool" THEN "reflect.Int" ELSE ret,
              err |-> NoError]
    ELSE [ret |-> "reflect.Invalid", err |-> ErrFieldNotFound(field)]

GetFieldType(field) ==
  IF field \in DOMAIN GetFieldTypeIndex
    THEN [ret |-> GetFieldTypeCases[GetFieldTypeIndex[field]].ret, err |-> NoError]
    ELSE [ret |-> "reflect.Invalid", err |-> ErrFieldNotFound(field)]

(***************************************************************************)
(* Event.SetFieldValue: the Event as the call leaves it and the error.     *)
(***************************************************************************)
(* an allocation that does not test for nil: a new node in front of the chain *)
AllocAncestorAlways(e) == [e EXCEPT !.Ancestor = <<NewProcessCacheEntry>> \o @]

(* "if e.ProcessContext.Ancestor == nil { e.ProcessContext.Ancestor = &ProcessCacheEntry{} }" *)
AllocAncestor(e) ==
  IF e.Ancestor = <<>> THEN [e EXCEPT !.Ancestor = <<NewProcessCacheEntry>>] ELSE e

(* a store that replaces the immediate parent by a new node holding the value *)
StoreIntoNewNode(e, c, x) ==
  IF c.alloc
    THEN [e EXCEPT !.Ancestor[1] = [NewProcessCacheEntry EXCEPT ![c.attr] = x]]
  ELSE [e EXCEPT !.attrs[c.attr] = x]

(* a store of an ancestor case into every node of the chain *)
StoreIntoEveryNode(e, c, x) ==
  IF c.alloc
    THEN [e EXCEPT !.Ancestor = [i \in DOMAIN e.Ancestor |->
                                   [e.Ancestor[i] EXCEPT ![c.attr] = x]]]
  ELSE [e EXCEPT !.attrs[c.attr] = x]

(* the store of a case into its target: an attribute of the Event, or of
   e.ProcessContext.Ancestor for the ancestor cases *)
Store(e, c, x) ==
  IF c.alloc THEN [e EXCEPT !.Ancestor[1][c.attr] = x]
  ELSE [e EXCEPT !.attrs[c.attr] = x]

(* a case body whose "append" replaces the sequence by the one new element *)
SetFieldValueCaseReplacing(e, c, value) ==
  LET e1 == IF c.alloc THEN AllocAncestor(e) ELSE e
      ok == value.t = c.assert
  IN  CASE c.how = "assert-assign" ->
             [event |-> Store(e1, c, IF ok THEN value.v ELSE ZeroOf(c.assert)),
              err |-> IF ok THEN NoError ELSE ErrValueTypeMismatch(c.errField)]
        [] c.how = "append" ->
             IF ~ok THEN [event |-> e1, err |-> ErrValueTypeMismatch(c.errField)]
             ELSE [event |-> [e1 EXCEPT !.attrs[c.attr] = <<value.v>>],
                   err |-> NoError]
        [] c.how = "assign" ->
             IF ~ok THEN [event |-> e1, err |-> ErrValueTypeMismatch(c.errField)]
             ELSE [event |-> Store(e1, c, IF c.conv # ""
                                          THEN ConvertInt(c.conv, value.v)
                                          ELSE value.v),
                   err |-> NoError]

(* a case body whose type assertion of a bool attribute also accepts an int *)
SetFieldValueCaseIntAsBool(e, c, value) ==
  LET e1 == IF c.alloc THEN AllocAncestor(e) ELSE e
      ok == value.t = c.assert \/ (c.assert = "bool" /\ value.t = "int")
  IN  CASE c.how = "assert-assign" ->
             [event |-> Store(e1, c, IF value.t = c.assert THEN value.v
                                     ELSE ZeroOf(c.assert)),
              err |-> IF ok THEN NoError ELSE ErrValueTypeMismatch(c.errField)]
        [] c.how = "append" ->
             IF ~ok THEN [event |-> e1, err |-> ErrValueTypeMismatch(c.errField)]
             ELSE [event |-> [e1 EXCEPT !.attrs[c.attr] = Append(@, value.v)],
                   err |-> NoError]
        [] c.how = "assign" ->
             IF ~ok THEN [event |-> e1, err |-> ErrValueTypeMismatch(c.errField)]
             ELSE [event |-> Store(e1, c, IF c.conv # ""
                                          THEN ConvertInt(c.conv, value.v)
                                          ELSE value.v),
                   err |-> NoError]

SetFieldValueCase(e, c, value) ==
  LET e1 == IF c.alloc THEN AllocAncestor(e) ELSE e
      ok == value.t = c.assert
  IN  CASE c.how = "assert-assign" ->
             (* if e.X, ok = value.(bool); !ok { return mismatch }: the
                assignment happens first, with false when the assertion fails *)
             [event |-> Store(e1, c, IF ok THEN value.v ELSE ZeroOf(c.assert)),
              err |-> IF ok THEN NoError ELSE ErrValueTypeMismatch(c.errField)]
        [] c.how = "append" ->
             IF ~ok THEN [event |-> e1, err |-> ErrValueTypeMismatch(c.errField)]
             ELSE [event |-> [e1 EXCEPT !.attrs[c.attr] = Append(@, value.v)],
                   err |-> NoError]
        [] c.how = "assign" ->
             IF ~ok THEN [event |-> e1, err |-> ErrValueTypeMismatch(c.errField)]
             ELSE [event |-> Store(e1, c, IF c.conv # ""
                                          THEN ConvertInt(c.conv, value.v)
                                          ELSE value.v),
                   err |-> NoError]

(* SetFieldValue whose code after the switch returns an error naming no field *)
SetFieldValueAnonymousError(e, field, value) ==
  IF field \in DOMAIN SetFieldValueIndex
    THEN SetFieldValueCase(e, SetFieldValueCases[SetFieldValueIndex[field]], value)
    ELSE [event |-> e, err |-> ErrFieldNotFound("")]

SetFieldValue(e, field, value) ==
  IF field \in DOMAIN SetFieldValueIndex
    THEN SetFieldValueCase(e, SetFieldValueCases[SetFieldValueIndex[field]], value)
    ELSE [event |-> e, err |-> ErrFieldNotFound(field)]

(***************************************************************************)
(* Bounds and inputs.                                                      *)
(***************************************************************************)
(* SetFieldValue calls made on one Event *)
MaxSets == 2

(* length of the Ancestor chain, and of Exec.Args / Exec.Envs, of a captured Event *)
MaxChain == 3

(* register ids 0..MaxRegID *)
MaxRegID == 1

RegIDs == 0..MaxRegID

FieldSet == {GetFields[i] : i \in DOMAIN GetFields}

(* strings that are no field of the schema: an unknown field, a struct that
   is no field, the iterator prefix, an event type, the empty string *)
UnknownFields == {"process.nonexistent", "open.file", "process.ancestors", "exec", ""}

Fields == FieldSet \cup UnknownFields

SmallInt == <<5, 0, 0, 0>>

(* 2^32 + (2^15 + 1) * 2^16 + 5: wider than 16 and than 32 bits, bit 31 set *)
BigInt == <<5, SignBit + 1, 1, 0>>

MinusOne == <<AllOnes, AllOnes, AllOnes, AllOnes>>

Values ==
  {IntValue(SmallInt), IntValue(BigInt), IntValue(MinusOne), StringValue("a"),
   StringValue("b"), BoolValue(TRUE)}

(* an attribute as the collector may have filled it *)
FilledOf(typ, n, s) ==
  CASE typ = "uint16" -> <<n>>
    [] typ = "uint32" -> <<n, 0>>
    [] typ = "int32"  -> <<n, 0>>
    [] typ = "uint64" -> <<n, 0, 0, 0>>
    [] typ = "int64"  -> <<n, 0, 0, 0>>
    [] typ = "string" -> s
    [] typ = "bool"   -> TRUE

(* entries of the process-tree cache: a root-owned and a user-owned process *)
CachedEntry(n, s) == [a \in EntryAttrs |-> FilledOf(EntryAttrType[a], n, s)]

RootEntry == CachedEntry(0, "root")

UserEntry == CachedEntry(1000, "user")

RECURSIVE SeqsUpTo(_, _)
SeqsUpTo(S, n) ==
  IF n = 0 THEN {<<>>}
  ELSE LET shorter == SeqsUpTo(S, n - 1)
       IN  shorter \cup {Append(q, x) : q \in shorter, x \in S}

Chains == SeqsUpTo({RootEntry, UserEntry}, MaxChain)

(* the chain of a process started by root below user processes: uids 0, 1000, 1000, ... *)
ScenarioChain(n) == [i \in 1..n |-> IF i = 1 THEN RootEntry ELSE UserEntry]

ArgStrings == <<"/bin/ls", "-la", "/tmp">>

EnvStrings == <<"HOME=/", "TERM=vt100", "LANG=C">>

Cycle(strings, k) == [i \in 1..k |-> strings[((i - 1) % Len(strings)) + 1]]

(* an Event as the collector delivers it, with k arguments and environment
   strings and the Ancestor chain ch *)
CapturedEvent(k, ch) ==
  [attrs |-> [a \in EventAttrs |->
                CASE a = "Exec.Args" -> Cycle(ArgStrings, k)
                  [] a = "Exec.Envs" -> Cycle(EnvStrings, k)
                  [] OTHER -> FilledOf(EventAttrType[a], 7, "x")],
   Ancestor |-> ch]

NoCall == [op |-> "none"]

NoPass ==
  [pc |-> "idle", field |-> "", regID |-> 0, evaluator |-> NilEvaluator,
   iterator |-> "nil", it |-> NewIterator, ptr |-> NilPtr, yielded |-> <<>>]

InitialEvent(o) ==
  IF o.captured THEN CapturedEvent(Len(o.chain), o.chain) ELSE NewEvent

InitFrom(origins) ==
  /\ origin \in origins
  /\ event = InitialEvent(origin)
  /\ prev = event
  /\ last = NoCall
  /\ nsets = 0
  /\ hist = <<>>
  /\ pass = NoPass
  /\ regs = [r \in RegIDs |-> NilPtr]
  /\ out = <<>>
  /\ threads = <<>>
  /\ instances = <<>>
  /\ listed = <<>>

(* a new Event, or one captured below the scenario chain *)
Init ==
  InitFrom({[captured |-> FALSE, chain |-> <<>>]}
           \cup {[captured |-> TRUE, chain |-> ScenarioChain(n)] : n \in 0..MaxChain})

(***************************************************************************)
(* Synthesizing an Event through SetFieldValue.  A replay writes one field *)
(* of a new or of a captured Event, up to MaxSets times.                   *)
(***************************************************************************)
CallSetFieldValue ==
  /\ nsets < MaxSets
  /\ \E field \in Fields, value \in Values :
       /\ IF nsets = 0 THEN last = NoCall ELSE field = last.field
       /\ LET r == SetFieldValue(event, field, value)
          IN  /\ event' = r.event
              /\ last' = [op |-> "SetFieldValue", field |-> field, value |-> value,
                          err |-> r.err]
              /\ hist' = IF r.err = NoError THEN Append(hist, value) ELSE hist
  /\ prev' = event
  /\ nsets' = nsets + 1
  /\ UNCHANGED <<origin, pass, regs, out, threads, instances, listed>>

(***************************************************************************)
(* The rule compiler and the serialization layer query the Model and the   *)
(* Event; the call is recorded in last.  The calls change                  *)
(* nothing but last, so a behaviour records one call: what a call returns  *)
(* does not depend on the calls before it.                                 *)
(***************************************************************************)
Idle == last = NoCall

CallGetIterator ==
  /\ Idle
  /\ \E field \in Fields :
       LET r == GetIterator(field)
       IN  last' = [op |-> "GetIterator", field |-> field,
                    iterator |-> r.iterator, err |-> r.err]
  /\ UNCHANGED <<event, origin, prev, nsets, hist, pass, regs, out, threads, instances, listed>>

CallGetEventTypes ==
  /\ Idle
  /\ last' = [op |-> "GetEventTypes", ret |-> GetEventTypes]
  /\ UNCHANGED <<event, origin, prev, nsets, hist, pass, regs, out, threads, instances, listed>>

CallGetEvaluator ==
  /\ Idle
  /\ \E field \in Fields, regID \in RegIDs :
       LET r == GetEvaluator(field, regID)
       IN  last' = [op |-> "GetEvaluator", field |-> field, regID |-> regID,
                    evaluator |-> r.evaluator, err |-> r.err]
  /\ UNCHANGED <<event, origin, prev, nsets, hist, pass, regs, out, threads, instances, listed>>

CallGetFields ==
  /\ Idle
  /\ last' = [op |-> "GetFields", ret |-> GetFields]
  /\ UNCHANGED <<event, origin, prev, nsets, hist, pass, regs, out, threads, instances, listed>>

CallGetFieldValue ==
  /\ Idle
  /\ \E field \in Fields :
       LET r == GetFieldValue(event, field)
       IN  last' = [op |-> "GetFieldValue", field |-> field, value |-> r.value,
                    err |-> r.err]
  /\ UNCHANGED <<event, origin, prev, nsets, hist, pass, regs, out, threads, instances, listed>>

CallGetFieldEventType ==
  /\ Idle
  /\ \E field \in Fields :
       LET r == GetFieldEventType(field)
       IN  last' = [op |-> "GetFieldEventType", field |-> field, ret |-> r.ret,
                    err |-> r.err]
  /\ UNCHANGED <<event, origin, prev, nsets, hist, pass, regs, out, threads, instances, listed>>

CallGetFieldType ==
  /\ Idle
  /\ \E field \in Fields :
       LET r == GetFieldType(field)
       IN  last' = [op |-> "GetFieldType", field |-> field, ret |-> r.ret,
                    err |-> r.err]
  /\ UNCHANGED <<event, origin, prev, nsets, hist, pass, regs, out, threads, instances, listed>>

Next ==
  \/ CallSetFieldValue
  \/ CallGetIterator
  \/ CallGetEventTypes
  \/ CallGetEvaluator
  \/ CallGetFields
  \/ CallGetFieldValue
  \/ CallGetFieldEventType
  \/ CallGetFieldType

Spec == Init /\ [][Next]_vars

(***************************************************************************)
(* SpecPass: one quantified evaluation pass over a captured Event, as the  *)
(* rule engine drives it: obtain the Iterator and the Evaluator from the   *)
(* Model, Front; for each element write it into the bound Register, run    *)
(* the Evaluator, Next; stop when the iterator yields nil.                 *)
(***************************************************************************)
IteratorPrefixes == {"exec.args", "exec.envs", "process.ancestors"}

(* the fields whose GetFieldValue case drives an iterator *)
IteratorFields ==
  {f \in FieldSet : GetFieldValueCases[GetFieldValueIndex[f]].iterator # ""}

(* the iterator prefix of an iterator-scoped field: the GetIterator case
   that names the iterator the field's GetFieldValue case drives *)
IteratorPrefix(field) ==
  LET iterator == GetFieldValueCases[GetFieldValueIndex[field]].iterator
  IN  CASE iterator = "ExecArgsIterator" -> "exec.args"
        [] iterator = "ExecEnvsIterator" -> "exec.envs"
        [] iterator = "ProcessAncestorsIterator" -> "process.ancestors"

InitPass ==
  InitFrom({[captured |-> FALSE, chain |-> <<>>]}
           \cup {[captured |-> TRUE, chain |-> ch] : ch \in Chains})

BeginPass ==
  /\ pass.pc = "idle"
  /\ \E field \in IteratorFields, regID \in RegIDs :
       LET iterator == GetIterator(IteratorPrefix(field)).iterator
           f == IteratorFront(iterator, event)
       IN  pass' = [pc |-> IF f.ptr = NilPtr THEN "done" ELSE "write",
                    field |-> field, regID |-> regID,
                    evaluator |-> GetEvaluator(field, regID).evaluator,
                    iterator |-> iterator, it |-> f.it, ptr |-> f.ptr,
                    yielded |-> IF f.ptr = NilPtr THEN <<>> ELSE <<f.ptr>>]
  /\ out' = <<>>
  /\ UNCHANGED <<event, origin, prev, last, nsets, hist, regs, threads, instances, listed>>

WriteRegister ==
  /\ pass.pc = "write"
  /\ regs' = [regs EXCEPT ![pass.regID] = pass.ptr]
  /\ pass' = [pass EXCEPT !.pc = "eval"]
  /\ UNCHANGED <<event, origin, prev, last, nsets, hist, out, threads, instances, listed>>

RunEvaluator ==
  /\ pass.pc = "eval"
  /\ out' = Append(out, EvalFnc(pass.evaluator,
                                [Object |-> event, Registers |-> regs]))
  /\ pass' = [pass EXCEPT !.pc = "next"]
  /\ UNCHANGED <<event, origin, prev, last, nsets, hist, regs, threads, instances, listed>>

CallNext ==
  /\ pass.pc = "next"
  /\ LET n == IteratorNext(pass.iterator, pass.it, event)
     IN  pass' = [pass EXCEPT !.pc = IF n.ptr = NilPtr THEN "done" ELSE "write",
                              !.it = n.it, !.ptr = n.ptr,
                              !.yielded = IF n.ptr = NilPtr THEN @ ELSE Append(@, n.ptr)]
  /\ UNCHANGED <<event, origin, prev, last, nsets, hist, regs, out, threads, instances, listed>>

(* The Evaluator run outside the protocol's step: after the iterator was
   positioned on an element (or exhausted) and before the Register was
   written for that position.  The Register then is unset (nothing was
   written yet) or stale (it holds the element of the previous position).
   One such run is recorded in last. *)
RunEvaluatorOffStep ==
  /\ pass.pc \in {"write", "done"}
  /\ Idle
  /\ last' = [op |-> "EvalFnc", evaluator |-> pass.evaluator,
              reg |-> regs[pass.regID], ptr |-> pass.ptr,
              result |-> EvalFnc(pass.evaluator,
                                 [Object |-> event, Registers |-> regs])]
  /\ UNCHANGED <<event, origin, prev, nsets, hist, pass, regs, out, threads, instances, listed>>

NextPass ==
  \/ BeginPass
  \/ WriteRegister
  \/ RunEvaluator
  \/ CallNext
  \/ RunEvaluatorOffStep

SpecPass == InitPass /\ [][NextPass]_vars

(***************************************************************************)
(* SpecThreads: threads of the worker pool share the Model.  Each thread   *)
(* evaluates its own Event with its own context: it asks the Model for the *)
(* Evaluator of a field, for an Iterator and for the event types, asks for *)
(* the same Evaluator again, and runs both Evaluators.  The steps of the   *)
(* threads interleave freely.                                              *)
(***************************************************************************)
(* threads that share the Model *)
MaxThreads == 2

Threads == 1..MaxThreads

(* the fields the threads ask for: an iterator-scoped field, a direct read
   and an unknown field *)
ThreadFields == {"process.ancestors.uid", "process.uid", "process.nonexistent"}

(* the Event of thread t: as many elements as there are register ids, other
   elements and other attribute values than those of the other threads *)
ThreadEvent(t) ==
  LET k == MaxRegID + 1
  IN  [attrs |-> [a \in EventAttrs |->
                    CASE a = "Exec.Args" ->
                           [i \in 1..k |-> ArgStrings[((i + t) % Len(ArgStrings)) + 1]]
                      [] a = "Exec.Envs" ->
                           [i \in 1..k |-> EnvStrings[((i + t) % Len(EnvStrings)) + 1]]
                      [] OTHER -> FilledOf(EventAttrType[a], t, "x")],
       Ancestor |-> [i \in 1..k |-> IF (i + t) % 2 = 0 THEN RootEntry ELSE UserEntry]]

(* the context of thread t for an evaluator of field: its Event, and
   Register r holding element r + 1 of the sequence the field iterates *)
ThreadContext(t, field) ==
  [Object |-> ThreadEvent(t),
   Registers |->
     [r \in RegIDs |->
        IF field \in IteratorFields
          THEN ElemPtr(IteratorSeq(GetFieldValueCases[GetFieldValueIndex[field]].iterator),
                       r + 1)
          ELSE NilPtr]]

(* the string a thread passes to GetIterator for its field *)
IteratorArgument(field) ==
  IF field \in IteratorFields THEN IteratorPrefix(field) ELSE field

NoEvaluator == [evaluator |-> NilEvaluator, err |-> NoError]

NoIterator == [iterator |-> "nil", err |-> NoError]

InitThreads ==
  /\ origin = [captured |-> FALSE, chain |-> <<>>]
  /\ event = NewEvent
  /\ prev = event
  /\ last = NoCall
  /\ nsets = 0
  /\ hist = <<>>
  /\ pass = NoPass
  /\ regs = [r \in RegIDs |-> NilPtr]
  /\ out = <<>>
  /\ instances = <<>>
  /\ listed = <<>>
  /\ threads = [t \in Threads |->
                  [pc |-> "start", field |-> "", regID |-> 0, first |-> NoEvaluator,
                   iterator |-> NoIterator, types |-> <<>>, second |-> NoEvaluator,
                   results |-> <<>>]]

ThreadGetEvaluator(t) ==
  /\ threads[t].pc = "start"
  /\ \E field \in ThreadFields, regID \in RegIDs :
       threads' = [threads EXCEPT ![t].pc = "iterator", ![t].field = field,
                                  ![t].regID = regID,
                                  ![t].first = GetEvaluator(field, regID)]
  /\ UNCHANGED <<event, origin, prev, last, nsets, hist, pass, regs, out, instances, listed>>

ThreadGetIterator(t) ==
  /\ threads[t].pc = "iterator"
  /\ threads' = [threads EXCEPT ![t].pc = "types",
                                ![t].iterator =
                                   GetIterator(IteratorArgument(threads[t].field))]
  /\ UNCHANGED <<event, origin, prev, last, nsets, hist, pass, regs, out, instances, listed>>

ThreadGetEventTypes(t) ==
  /\ threads[t].pc = "types"
  /\ threads' = [threads EXCEPT ![t].pc = "again", ![t].types = GetEventTypes]
  /\ UNCHANGED <<event, origin, prev, last, nsets, hist, pass, regs, out, instances, listed>>

ThreadGetEvaluatorAgain(t) ==
  /\ threads[t].pc = "again"
  /\ threads' = [threads EXCEPT ![t].pc = "run",
                                ![t].second =
                                   GetEvaluator(threads[t].field, threads[t].regID)]
  /\ UNCHANGED <<event, origin, prev, last, nsets, hist, pass, regs, out, instances, listed>>

ThreadRunEvaluators(t) ==
  /\ threads[t].pc = "run"
  /\ LET ctx == ThreadContext(t, threads[t].field)
     IN  threads' = [threads EXCEPT
                       ![t].pc = "done",
                       ![t].results =
                          IF threads[t].first.err # NoError THEN <<>>
                          ELSE <<EvalFnc(threads[t].first.evaluator, ctx),
                                 EvalFnc(threads[t].second.evaluator, ctx)>>]
  /\ UNCHANGED <<event, origin, prev, last, nsets, hist, pass, regs, out, instances, listed>>

NextThreads ==
  \E t \in Threads :
     \/ ThreadGetEvaluator(t)
     \/ ThreadGetIterator(t)
     \/ ThreadGetEventTypes(t)
     \/ ThreadGetEvaluatorAgain(t)
     \/ ThreadRunEvaluators(t)

SpecThreads == InitThreads /\ [][NextThreads]_vars

(***************************************************************************)
(* SpecIterators: iterator instances over one Event that is not written.   *)
(* An instance is created, Front is called on it, then Next, also after it *)
(* reported the end; at any time an instance may be dropped for a new one. *)
(* The calls on the instances interleave freely.                           *)
(***************************************************************************)
(* iterator instances in use at a time *)
MaxInstances == 2

(* Next calls on an instance after the call that yielded nil *)
MaxAfter == 2

Instances == 1..MaxInstances

Iterators == {"ExecArgsIterator", "ExecEnvsIterator", "ProcessAncestorsIterator"}

(* calls: what the Front and Next calls on the instance returned, in order *)
NoInstance == [iterator |-> "nil", it |-> NewIterator, calls |-> <<>>]

InitIterators ==
  /\ origin \in {[captured |-> FALSE, chain |-> <<>>]}
                 \cup {[captured |-> TRUE, chain |-> ScenarioChain(n)] : n \in {1, MaxChain}}
  /\ event = InitialEvent(origin)
  /\ prev = event
  /\ last = NoCall
  /\ nsets = 0
  /\ hist = <<>>
  /\ pass = NoPass
  /\ regs = [r \in RegIDs |-> NilPtr]
  /\ out = <<>>
  /\ threads = <<>>
  /\ listed = <<>>
  /\ instances = [i \in Instances |-> NoInstance]

(* a creation that hands out the position of an instance already in use
   instead of a new one *)
CreateInstanceResumed(i) ==
  /\ \E iterator \in Iterators :
       LET used == {j \in Instances : instances[j].iterator = iterator}
           it == IF used = {} THEN NewIterator
                 ELSE instances[CHOOSE j \in used : \A k \in used : j <= k].it
       IN  /\ instances[i] # [iterator |-> iterator, it |-> it, calls |-> <<>>]
           /\ instances' = [instances EXCEPT
                              ![i] = [iterator |-> iterator, it |-> it, calls |-> <<>>]]
  /\ UNCHANGED <<event, origin, prev, last, nsets, hist, pass, regs, out, threads, listed>>

(* "iterator := &ExecArgsIterator{}": a new instance in slot i *)
CreateInstance(i) ==
  /\ \E iterator \in Iterators :
       /\ instances[i] # [iterator |-> iterator, it |-> NewIterator, calls |-> <<>>]
       /\ instances' = [instances EXCEPT
                          ![i] = [iterator |-> iterator, it |-> NewIterator,
                                  calls |-> <<>>]]
  /\ UNCHANGED <<event, origin, prev, last, nsets, hist, pass, regs, out, threads, listed>>

InstanceFront(i) ==
  /\ instances[i].iterator # "nil"
  /\ instances[i].it.state = "NotStarted"
  /\ LET f == IteratorFront(instances[i].iterator, event)
     IN  instances' = [instances EXCEPT ![i].it = f.it,
                                        ![i].calls = Append(@, f.ptr)]
  /\ UNCHANGED <<event, origin, prev, last, nsets, hist, pass, regs, out, threads, listed>>

InstanceNext(i) ==
  /\ instances[i].iterator # "nil"
  /\ instances[i].it.state \in {"Positioned", "Exhausted"}
  /\ Len(instances[i].calls) <= IteratedLen(event, instances[i].iterator) + MaxAfter
  /\ LET n == IteratorNext(instances[i].iterator, instances[i].it, event)
     IN  instances' = [instances EXCEPT ![i].it = n.it,
                                        ![i].calls = Append(@, n.ptr)]
  /\ UNCHANGED <<event, origin, prev, last, nsets, hist, pass, regs, out, threads, listed>>

NextIterators ==
  \E i \in Instances :
     \/ CreateInstance(i)
     \/ InstanceFront(i)
     \/ InstanceNext(i)

SpecIterators == InitIterators /\ [][NextIterators]_vars

(***************************************************************************)
(* SpecFields: GetFields called on an Event while the Event is written     *)
(* through SetFieldValue and read through GetFieldValue, which drives the  *)
(* iterators for the iterator-scoped fields.                               *)
(***************************************************************************)
(* GetFields calls on one Event *)
MaxListed == 2

(* the fields written and read between the GetFields calls: a repeated
   field, an ancestor field, a bool and an int scalar, an unknown field *)
ReplayFields ==
  {"exec.args", "process.ancestors.uid", "exec.args_truncated", "chmod.file.mode",
   "process.nonexistent"}

(* the values written: one of each dynamic type *)
ReplayValues == {IntValue(SmallInt), StringValue("a"), BoolValue(TRUE)}

InitFields ==
  /\ origin \in {[captured |-> FALSE, chain |-> <<>>]}
                 \cup {[captured |-> TRUE, chain |-> ScenarioChain(MaxChain)]}
  /\ event = InitialEvent(origin)
  /\ prev = event
  /\ last = NoCall
  /\ nsets = 0
  /\ hist = <<>>
  /\ pass = NoPass
  /\ regs = [r \in RegIDs |-> NilPtr]
  /\ out = <<>>
  /\ threads = <<>>
  /\ instances = <<>>
  /\ listed = <<>>

(* the calls on one Event stay with one field *)
SameField(field) == IF last = NoCall THEN TRUE ELSE field = last.field

ReplaySetFieldValue ==
  /\ nsets < MaxSets
  /\ \E field \in ReplayFields, value \in ReplayValues :
       /\ SameField(field)
       /\ LET r == SetFieldValue(event, field, value)
          IN  /\ event' = r.event
              /\ last' = [op |-> "SetFieldValue", field |-> field, value |-> value,
                          err |-> r.err]
              /\ hist' = IF r.err = NoError THEN Append(hist, value) ELSE hist
  /\ prev' = event
  /\ nsets' = nsets + 1
  /\ UNCHANGED <<origin, pass, regs, out, threads, instances, listed>>

ReplayGetFieldValue ==
  /\ \E field \in ReplayFields :
       /\ SameField(field)
       /\ LET r == GetFieldValue(event, field)
          IN  last' = [op |-> "GetFieldValue", field |-> field, value |-> r.value,
                      err |-> r.err]
  /\ UNCHANGED <<event, origin, prev, nsets, hist, pass, regs, out, threads, instances,
                 listed>>

(* e.GetFields(); kept with the call it came after and the number of
   SetFieldValue calls made on the Event before it *)
ListFields ==
  /\ Len(listed) < MaxListed
  /\ listed' = Append(listed, [ret |-> GetFields, nsets |-> nsets, after |-> last])
  /\ UNCHANGED <<event, origin, prev, last, nsets, hist, pass, regs, out, threads,
                 instances>>

NextFields == ReplaySetFieldValue \/ ReplayGetFieldValue \/ ListFields

SpecFields == InitFields /\ [][NextFields]_vars

(***************************************************************************)
(* SpecReads: the read operations on an Event that is new, captured, or    *)
(* was written through SetFieldValue: the four accessors, an Evaluator of  *)
(* the Model run on the Event, and an iterator driven with Front and Next. *)
(* The calls on one Event stay with one field.                             *)
(***************************************************************************)
InitReads ==
  InitFrom({[captured |-> FALSE, chain |-> <<>>],
            [captured |-> TRUE, chain |-> ScenarioChain(MaxChain)]})

(* the field of the call before, none before the first call *)
LastField == IF last = NoCall THEN "" ELSE last.field

WriteField ==
  /\ pass = NoPass
  /\ ReplaySetFieldValue

(* e.GetFieldValue(field) that allocates the placeholder ancestor the way
   the SetFieldValue case of the field does *)
ReadFieldValueAllocating ==
  /\ pass = NoPass
  /\ \E field \in Fields :
       /\ SameField(field)
       /\ LET r == GetFieldValue(event, field)
          IN  /\ last' = [op |-> "GetFieldValue", field |-> field, value |-> r.value,
                          err |-> r.err]
              /\ event' = IF field \in IteratorFields
                               /\ IteratorPrefix(field) = "process.ancestors"
                            THEN AllocAncestor(event)
                            ELSE event
  /\ UNCHANGED <<origin, prev, nsets, hist, pass, regs, out, threads, instances,
                 listed>>

ReadFieldValue ==
  /\ pass = NoPass
  /\ \E field \in Fields :
       /\ SameField(field)
       /\ LET r == GetFieldValue(event, field)
          IN  last' = [op |-> "GetFieldValue", field |-> field, value |-> r.value,
                      err |-> r.err]
  /\ UNCHANGED <<event, origin, prev, nsets, hist, pass, regs, out, threads, instances,
                 listed>>

ReadFieldType ==
  /\ pass = NoPass
  /\ \E field \in Fields :
       /\ SameField(field)
       /\ LET r == GetFieldType(field)
          IN  last' = [op |-> "GetFieldType", field |-> field, ret |-> r.ret,
                      err |-> r.err]
  /\ UNCHANGED <<event, origin, prev, nsets, hist, pass, regs, out, threads, instances,
                 listed>>

ReadFieldEventType ==
  /\ pass = NoPass
  /\ \E field \in Fields :
       /\ SameField(field)
       /\ LET r == GetFieldEventType(field)
          IN  last' = [op |-> "GetFieldEventType", field |-> field, ret |-> r.ret,
                      err |-> r.err]
  /\ UNCHANGED <<event, origin, prev, nsets, hist, pass, regs, out, threads, instances,
                 listed>>

ReadFields ==
  /\ pass = NoPass
  /\ last' = [op |-> "GetFields", field |-> LastField, ret |-> GetFields]
  /\ UNCHANGED <<event, origin, prev, nsets, hist, pass, regs, out, threads, instances,
                 listed>>

(* the Evaluator of GetEvaluator(field, regID) run with the Event as the
   context object *)
ReadEvaluator ==
  /\ pass = NoPass
  /\ \E field \in FieldSet, regID \in RegIDs :
       /\ SameField(field)
       /\ last' = [op |-> "EvalFnc", field |-> field, regID |-> regID,
                   result |-> EvalFnc(GetEvaluator(field, regID).evaluator,
                                      [Object |-> event, Registers |-> regs])]
  /\ UNCHANGED <<event, origin, prev, nsets, hist, pass, regs, out, threads, instances,
                 listed>>

(* one pass over the Event as it was constructed *)
DriveFront ==
  /\ Idle
  /\ BeginPass

NextReads ==
  \/ WriteField
  \/ ReadFieldValue
  \/ ReadFieldType
  \/ ReadFieldEventType
  \/ ReadFields
  \/ ReadEvaluator
  \/ DriveFront
  \/ WriteRegister
  \/ RunEvaluator
  \/ CallNext

SpecReads == InitReads /\ [][NextReads]_vars

(***************************************************************************)
(* SpecTypes: one SetFieldValue call on a new or captured Event with a     *)
(* value of any dynamic type, the types of no field included.              *)
(***************************************************************************)
(* a value whose dynamic type is neither int, string nor bool *)
OtherValue == [t |-> "float64", v |-> <<>>]

TypedSetFieldValue ==
  /\ Idle
  /\ \E field \in Fields, value \in ReplayValues \cup {OtherValue} :
       LET r == SetFieldValue(event, field, value)
       IN  /\ event' = r.event
           /\ last' = [op |-> "SetFieldValue", field |-> field, value |-> value,
                       err |-> r.err]
  /\ prev' = event
  /\ nsets' = nsets + 1
  /\ UNCHANGED <<origin, hist, pass, regs, out, threads, instances, listed>>

SpecTypes == InitReads /\ [][TypedSetFieldValue]_vars

(***************************************************************************)
(* SpecRegisters: for one field, the Evaluators GetEvaluator builds for    *)
(* every register id, run on one Event and one set of Registers after the  *)
(* Registers were written in any way.                                      *)
(***************************************************************************)
(* the elements a Register may hold while a field is evaluated: any element
   of the sequence the field iterates, for a direct field the nearest and
   the farthest ancestor; or none *)
PointersOf(e, field) ==
  IF field \in IteratorFields
    THEN LET iterator == GetFieldValueCases[GetFieldValueIndex[field]].iterator
         IN  {ElemPtr(IteratorSeq(iterator), i) : i \in 1..IteratedLen(e, iterator)}
               \cup {NilPtr}
    ELSE {ElemPtr("ancestors", i) : i \in {1, Len(e.Ancestor)} \ {0}} \cup {NilPtr}

InitRegisters ==
  InitFrom({[captured |-> FALSE, chain |-> <<>>],
            [captured |-> TRUE, chain |-> ScenarioChain(MaxChain)]})

ChooseField ==
  /\ pass.pc = "idle"
  /\ \E field \in FieldSet : pass' = [NoPass EXCEPT !.pc = "chosen", !.field = field]
  /\ UNCHANGED <<event, origin, prev, last, nsets, hist, regs, out, threads, instances,
                 listed>>

StoreRegister ==
  /\ pass.pc = "chosen"
  /\ \E r \in RegIDs, ptr \in PointersOf(event, pass.field) :
       regs' = [regs EXCEPT ![r] = ptr]
  /\ UNCHANGED <<event, origin, prev, last, nsets, hist, pass, out, threads, instances,
                 listed>>

(* out[r + 1]: the result of the Evaluator of GetEvaluator(field, r) *)
RunEvaluators ==
  /\ pass.pc = "chosen"
  /\ out' = [i \in 1..(MaxRegID + 1) |->
               EvalFnc(GetEvaluator(pass.field, i - 1).evaluator,
                       [Object |-> event, Registers |-> regs])]
  /\ pass' = [pass EXCEPT !.pc = "ran"]
  /\ UNCHANGED <<event, origin, prev, last, nsets, hist, regs, threads, instances,
                 listed>>

NextRegisters == ChooseField \/ StoreRegister \/ RunEvaluators

SpecRegisters == InitRegisters /\ [][NextRegisters]_vars

(***************************************************************************)
(* Properties.                                                             *)
(***************************************************************************)
(* the reflect.Kind of the result of an evaluator variant *)
KindOfVariant(variant) ==
  CASE variant = "IntEvaluator"    -> "reflect.Int"
    [] variant = "StringEvaluator" -> "reflect.String"
    [] variant = "BoolEvaluator"   -> "reflect.Bool"
    [] OTHER                       -> "reflect.Invalid"

(* the reflect.Kind of a dynamic value *)
KindOfValue(value) ==
  CASE value.t = "int"    -> "reflect.Int"
    [] value.t = "string" -> "reflect.String"
    [] value.t = "bool"   -> "reflect.Bool"
    [] OTHER              -> "reflect.Invalid"

(* the operations that take a field and fail with ErrFieldNotFound *)
FieldOps ==
  {"GetEvaluator", "GetFieldValue", "GetFieldEventType", "GetFieldType", "SetFieldValue"}

(* C1: for every field of GetFields() and every register id, GetEvaluator
   returns no error and an evaluator whose variant (Int, String, Bool) is
   the kind GetFieldType reports for the field. *)
C1_EvaluatorKindIsFieldType ==
  (last.op = "GetEvaluator" /\ last.field \in FieldSet) =>
     /\ last.err = NoError
     /\ last.evaluator.Field = last.field
     /\ GetFieldType(last.field).err = NoError
     /\ KindOfVariant(last.evaluator.variant) = GetFieldType(last.field).ret

C1_Witness ==
  /\ last.op = "GetEvaluator"
  /\ last.field = "exec.args_truncated"
  /\ last.regID = MaxRegID
  /\ last.evaluator.variant = "BoolEvaluator"

(* C2: for a field that is not in GetFields(), GetEvaluator, GetFieldValue,
   GetFieldEventType, GetFieldType and SetFieldValue each return
   ErrFieldNotFound naming exactly that field, and SetFieldValue leaves the
   Event as it was. *)
C2_UnknownFieldNotFound ==
  (last.op \in FieldOps /\ last.field \notin FieldSet) =>
     /\ last.err = ErrFieldNotFound(last.field)
     /\ last.op = "SetFieldValue" => event = prev
     /\ last.op = "GetEvaluator" => last.evaluator = NilEvaluator

C2_Witness ==
  /\ last.op = "SetFieldValue"
  /\ last.field = "process.nonexistent"
  /\ last.err = ErrFieldNotFound("process.nonexistent")
  /\ origin.captured
  /\ nsets = MaxSets

(* C3: GetIterator returns an iterator and no error for exactly the three
   prefixes exec.args, exec.envs and process.ancestors; for any other
   string it returns nil and ErrIteratorNotSupported carrying the string. *)
C3_IteratorPrefixesOnly ==
  last.op = "GetIterator" =>
     IF last.field \in {"exec.args", "exec.envs", "process.ancestors"}
       THEN last.err = NoError /\ last.iterator # "nil"
       ELSE last.err = ErrIteratorNotSupported(last.field) /\ last.iterator = "nil"

C3_Witness ==
  /\ last.op = "GetIterator"
  /\ last.field = "process.ancestors.uid"
  /\ last.field \in FieldSet
  /\ last.err.kind = "ErrIteratorNotSupported"

(* the non-repeated scalar fields: every field of GetFields() but exec.args,
   exec.envs and process.ancestors.* *)
ScalarFields == FieldSet \ IteratorFields

AncestorFields ==
  {f \in FieldSet :
     GetFieldValueCases[GetFieldValueIndex[f]].iterator = "ProcessAncestorsIterator"}

SequenceFields == {"exec.args", "exec.envs"}

(* the dynamic type of value is the declared kind of field *)
WellTyped(field, value) == KindOfValue(value) = GetFieldType(field).ret

SameValue(a, b) == a.t = b.t /\ a.v = b.v

(* the Go type of the attribute behind a field *)
AttrTypeOfField(field) ==
  LET c == GetFieldValueCases[GetFieldValueIndex[field]]
  IN  CASE c.iterator = "" -> EventAttrType[c.attr]
        [] c.iterator = "ProcessAncestorsIterator" -> EntryAttrType[c.attr]
        [] OTHER -> "[]string"

(* the int v (as limbs) is a value of the fixed-width type typ: 0 <= v < 2^16
   for uint16, 0 <= v < 2^32 for uint32, -2^31 <= v < 2^31 for int32; every
   64-bit pattern is kept by the 64-bit attributes *)
FitsType(typ, v) ==
  CASE typ = "uint16" -> v[2] = 0 /\ v[3] = 0 /\ v[4] = 0
    [] typ = "uint32" -> v[3] = 0 /\ v[4] = 0
    [] typ = "int32"  -> \/ v[2] < SignBit /\ v[3] = 0 /\ v[4] = 0
                         \/ v[2] >= SignBit /\ v[3] = AllOnes /\ v[4] = AllOnes
    [] OTHER -> TRUE

Fits(field, value) == value.t = "int" => FitsType(AttrTypeOfField(field), value.v)

(* C4 as claimed: for every non-repeated scalar field and ANY value of the
   field's declared type, SetFieldValue returns nil and GetFieldValue then
   returns the value unchanged. *)
C4_RoundTripAnyValue ==
  (last.op = "SetFieldValue" /\ last.field \in ScalarFields
      /\ WellTyped(last.field, last.value)) =>
     /\ last.err = NoError
     /\ SameValue(GetFieldValue(event, last.field).value, last.value)

(* C4 amended: for every non-repeated scalar field and any value of the
   field's declared type that, for an integer field, is in the range of the
   attribute's fixed-width type (any int for the 64-bit attributes),
   SetFieldValue returns nil and GetFieldValue then returns the value
   unchanged. *)
C4_RoundTripInRange ==
  (last.op = "SetFieldValue" /\ last.field \in ScalarFields
      /\ WellTyped(last.field, last.value) /\ Fits(last.field, last.value)) =>
     /\ last.err = NoError
     /\ GetFieldValue(event, last.field).err = NoError
     /\ SameValue(GetFieldValue(event, last.field).value, last.value)

C4_Witness ==
  /\ last.op = "SetFieldValue"
  /\ last.field = "setuid.fsuid"
  /\ last.value = IntValue(SmallInt)
  /\ origin.captured
  /\ GetFieldValue(prev, last.field).value # last.value
  /\ GetFieldValue(event, last.field).value = IntValue(SmallInt)

(* C5: for every non-repeated scalar field and every value whose dynamic
   type differs from the field's declared type, SetFieldValue returns
   ErrValueTypeMismatch and GetFieldValue returns afterwards what it
   returned before the call. *)
C5_MismatchKeepsValue ==
  (last.op = "SetFieldValue" /\ last.field \in ScalarFields
      /\ ~WellTyped(last.field, last.value)) =>
     /\ last.err.kind = "ErrValueTypeMismatch"
     /\ SameValue(GetFieldValue(event, last.field).value,
                  GetFieldValue(prev, last.field).value)

(* C6: for every field of the schema and every wrongly typed value,
   SetFieldValue returns ErrValueTypeMismatch and leaves the whole Event
   unmodified, the Ancestor chain and exec.args / exec.envs included. *)
C6_MismatchLeavesEventUnmodified ==
  (last.op = "SetFieldValue" /\ last.field \in FieldSet
      /\ ~WellTyped(last.field, last.value)) =>
     /\ last.err.kind = "ErrValueTypeMismatch"
     /\ event = prev

(* C7: a SetFieldValue of a string on exec.args or exec.envs returns nil and
   appends exactly one element: GetFieldValue returns what it returned
   before followed by the string; on a field that was empty when the Event
   was constructed the sequence is the values set so far, in call order. *)
C7_AppendsOneElement ==
  (last.op = "SetFieldValue" /\ last.field \in SequenceFields) =>
     /\ last.value.t = "string" =>
          /\ last.err = NoError
          /\ GetFieldValue(event, last.field).value =
               StringsValue(Append(GetFieldValue(prev, last.field).value.v,
                                   last.value.v))
     /\ GetFieldValue(InitialEvent(origin), last.field).value.v = <<>> =>
          GetFieldValue(event, last.field).value =
             StringsValue([i \in 1..Len(hist) |-> hist[i].v])

C7_Witness ==
  /\ last.op = "SetFieldValue"
  /\ last.field = "exec.envs"
  /\ nsets = MaxSets
  /\ Len(hist) = MaxSets
  /\ hist[1] # hist[Len(hist)]
  /\ GetFieldValue(InitialEvent(origin), last.field).value.v = <<>>
  /\ Len(GetFieldValue(event, last.field).value.v) = MaxSets

(* C8: a SetFieldValue call on a process.ancestors.* field allocates exactly
   one immediate-parent node when the Ancestor chain is empty and none when
   it is not, and a successful call writes into that immediate parent; no
   call lengthens the chain by more than one node, and a chain that was
   empty when the Event was constructed never has more than one node. *)
C8_AllocatesOneLevel ==
  last.op = "SetFieldValue" =>
     /\ Len(event.Ancestor) =
          IF last.field \in AncestorFields /\ prev.Ancestor = <<>>
            THEN 1 ELSE Len(prev.Ancestor)
     /\ (last.field \in AncestorFields /\ prev.Ancestor # <<>>) =>
          Tail(event.Ancestor) = Tail(prev.Ancestor)
     /\ (last.field \in AncestorFields /\ last.err = NoError
           /\ Fits(last.field, last.value)) =>
          GetFieldValue(event, last.field).value.v[1] = last.value.v
     /\ InitialEvent(origin).Ancestor = <<>> => Len(event.Ancestor) <= 1

C8_Witness ==
  /\ last.op = "SetFieldValue"
  /\ last.field = "process.ancestors.uid"
  /\ InitialEvent(origin).Ancestor = <<>>
  /\ nsets = MaxSets
  /\ Len(hist) = MaxSets
  /\ Len(event.Ancestor) = 1
  /\ prev.Ancestor # <<>>

(* the value a GetFieldValue case reads of the i-th ancestor of the Event *)
AncestorValue(e, field, i) ==
  LET c == GetFieldValueCases[GetFieldValueIndex[field]]
  IN  ReadEntry(e.Ancestor[i], c.attr, c.int)

(* C9: a fresh ProcessAncestors iterator over an Event whose Ancestor chain
   has N links yields, through Front and the Next calls, the N ancestors
   from the immediate parent towards the root, each once, and then nil
   (Exhausted); for N = 0 Front itself yields nil.  GetFieldValue, which
   drives the iterator itself, returns the N values in the same order. *)
C9_AncestorsVisitedInOrder ==
  (pass.pc # "idle" /\ pass.field \in AncestorFields) =>
     LET N == Len(event.Ancestor)
         g == GetFieldValue(event, pass.field)
     IN  /\ pass.iterator = "ProcessAncestorsIterator"
         /\ Len(pass.yielded) <= N
         /\ \A i \in 1..Len(pass.yielded) :
               /\ pass.yielded[i] = ElemPtr("ancestors", i)
               /\ ElementAt(event, pass.yielded[i]) = origin.chain[i]
         /\ pass.pc # "done" =>
               /\ pass.it = [state |-> "Positioned", pos |-> Len(pass.yielded)]
               /\ pass.ptr = ElemPtr("ancestors", Len(pass.yielded))
         /\ pass.pc = "done" =>
               /\ Len(pass.yielded) = N
               /\ pass.it.state = "Exhausted"
               /\ pass.ptr = NilPtr
         /\ N = 0 => pass.pc = "done"
         /\ Len(g.value.v) = N
         /\ \A i \in 1..N : g.value.v[i] = AncestorValue(event, pass.field, i).v

C9_Witness ==
  /\ pass.pc = "done"
  /\ pass.field = "process.ancestors.pid"
  /\ Len(event.Ancestor) = MaxChain
  /\ Len(pass.yielded) = MaxChain
  /\ event.Ancestor[1] # event.Ancestor[MaxChain]
  /\ pass.it.state = "Exhausted"

(* C10: for every iterator-scoped field, the quantifier protocol (Front; for
   each element write it into the Register, run the Evaluator of
   GetEvaluator(field, regID), Next; stop at nil) produces exactly the
   sequence GetFieldValue returns on the same Event: the same values in the
   same order, and as many once the pass is done. *)
C10_PassYieldsFieldValue ==
  (pass.pc # "idle") =>
     LET g == GetFieldValue(event, pass.field)
     IN  /\ g.err = NoError
         /\ Len(out) <= Len(g.value.v)
         /\ \A i \in 1..Len(out) :
               /\ out[i].v = g.value.v[i]
               /\ g.value.t = IF out[i].t = "int" THEN "[]int" ELSE "[]string"
         /\ pass.pc = "done" => Len(out) = Len(g.value.v)

C10_Witness ==
  /\ pass.pc = "done"
  /\ pass.field = "process.ancestors.uid"
  /\ pass.regID = MaxRegID
  /\ out = <<IntValue(<<0, 0, 0, 0>>), IntValue(<<1000, 0, 0, 0>>),
             IntValue(<<1000, 0, 0, 0>>)>>
  /\ GetFieldValue(event, "process.ancestors.uid").value
       = IntsValue(<< <<0, 0, 0, 0>>, <<1000, 0, 0, 0>>, <<1000, 0, 0, 0>> >>)

(* the strings an ExecArgs / ExecEnvs iterator walks, and the name of the
   sequence its pointers point into *)
StringFields == {"exec.args", "exec.envs"}

IteratedStrings(e, field) ==
  IF field = "exec.args" THEN e.attrs["Exec.Args"] ELSE e.attrs["Exec.Envs"]

(* C11: over an exec Event with k argument (environment) strings, Front and
   the following Next calls of a fresh ExecArgs (ExecEnvs) iterator yield
   the k strings in index order, each once, and the step after the k-th
   yields nil (Exhausted); GetFieldValue("exec.args") ("exec.envs") returns
   those k strings in the same order. *)
C11_ExecStringsInCaptureOrder ==
  (pass.pc # "idle" /\ pass.field \in StringFields) =>
     LET strings == IteratedStrings(event, pass.field)
         k == Len(strings)
         seq == IF pass.field = "exec.args" THEN "args" ELSE "envs"
         g == GetFieldValue(event, pass.field)
     IN  /\ pass.iterator = IF pass.field = "exec.args" THEN "ExecArgsIterator"
                            ELSE "ExecEnvsIterator"
         /\ Len(pass.yielded) <= k
         /\ \A i \in 1..Len(pass.yielded) :
               /\ pass.yielded[i] = ElemPtr(seq, i)
               /\ ElementAt(event, pass.yielded[i]) = strings[i]
         /\ pass.pc # "done" =>
               /\ pass.it = [state |-> "Positioned", pos |-> Len(pass.yielded)]
               /\ pass.ptr = ElemPtr(seq, Len(pass.yielded))
         /\ pass.pc = "done" =>
               /\ Len(pass.yielded) = k
               /\ pass.it.state = "Exhausted"
               /\ pass.ptr = NilPtr
         /\ k = 0 => pass.pc = "done"
         /\ g = [value |-> StringsValue(strings), err |-> NoError]

C11_Witness ==
  /\ pass.pc = "done"
  /\ pass.field = "exec.args"
  /\ event.attrs["Exec.Args"] = <<"/bin/ls", "-la", "/tmp">>
  /\ [i \in 1..3 |-> ElementAt(event, pass.yielded[i])] = <<"/bin/ls", "-la", "/tmp">>
  /\ pass.it.state = "Exhausted"
  /\ GetFieldValue(event, "exec.args").value = StringsValue(<<"/bin/ls", "-la", "/tmp">>)

(* C12 as claimed: an iterator-scoped Evaluator run while its bound Register
   is unset (it holds no element) or stale (it holds the element of a
   position the iterator has left) returns the zero value of its type. *)
C12_UnsetOrStaleYieldsZero ==
  (last.op = "EvalFnc" /\ last.reg # last.ptr) =>
     last.result = ZeroResult(last.evaluator.variant)

(* the part of C12 the code keeps: with a Register that holds no element
   the Evaluator returns the zero value of its type *)
C12_UnsetYieldsZero ==
  (last.op = "EvalFnc" /\ last.reg = NilPtr) =>
     last.result = ZeroResult(last.evaluator.variant)

(* a stale Register: the result is the attribute of the element left behind *)
C12_StaleYieldsElement ==
  (last.op = "EvalFnc" /\ last.reg # NilPtr) =>
     last.result = ElementResult(event, last.evaluator.obj, last.evaluator.attr,
                                 last.evaluator.int, last.reg)

(* the dot-separated components of a path of the schema *)
Components(field) ==
  FieldComponents[CHOOSE i \in DOMAIN GetFields : GetFields[i] = field]

(* the paths that start with "process." or "container." *)
GlobalFields == {f \in FieldSet : Components(f)[1] \in {"process", "container"}}

(* C13: for a path of the schema GetFieldEventType returns "*" when the
   path starts with "process." or "container." and for no other path; for
   every other path it returns the first dot-separated component of the
   path. *)
C13_EventTypeIsFirstComponent ==
  (last.op = "GetFieldEventType" /\ last.field \in FieldSet) =>
     /\ last.err = NoError
     /\ last.ret = "*" <=> last.field \in GlobalFields
     /\ last.field \notin GlobalFields => last.ret = Components(last.field)[1]

C13_Witness ==
  /\ last.op = "GetFieldEventType"
  /\ last.field = "chmod.file.mode"
  /\ last.ret = "chmod"
  /\ GetFieldEventType("process.pid").ret = "*"
  /\ GetFieldEventType("process.ancestors.uid").ret = "*"
  /\ GetFieldEventType("container.id").ret = "*"
  /\ GetFieldEventType("exec.args").ret = "exec"

(* the 15 event kinds *)
EventKinds ==
  {"capset", "chmod", "chown", "exec", "link", "mkdir", "open", "removexattr",
   "rename", "rmdir", "setgid", "setuid", "setxattr", "unlink", "utimes"}

(* C14: GetEventTypes() returns exactly the 15 kinds, none twice; every
   value other than "*" that GetFieldEventType returns for a path of
   GetFields() is one of the kinds returned, and every kind returned is the
   event type of at least one path of GetFields(). *)
C14_EventTypesClosedAndExhaustive ==
  last.op = "GetEventTypes" =>
     LET kinds == {last.ret[i] : i \in DOMAIN last.ret}
     IN  /\ kinds = EventKinds
         /\ Len(last.ret) = 15
         /\ \A i, j \in DOMAIN last.ret : last.ret[i] = last.ret[j] => i = j
         /\ \A f \in FieldSet :
               /\ GetFieldEventType(f).err = NoError
               /\ GetFieldEventType(f).ret \in kinds \cup {"*"}
         /\ \A k \in kinds : \E f \in FieldSet : GetFieldEventType(f).ret = k

C14_Witness ==
  /\ last.op = "GetEventTypes"
  /\ Len(last.ret) = 15
  /\ last.ret[1] = "capset"
  /\ last.ret[15] = "utimes"
  /\ GetFieldEventType("utimes.retval").ret = "utimes"

(* C15: two calls GetEvaluator(p, r) with identical arguments, whatever
   calls of this or of other threads lie between them, return the same
   error and Evaluators with the same Field and Weight that give identical
   results when run on the same Event with the same Registers (the context
   of any thread). *)
C15_SameArgumentsSameEvaluator ==
  \A t \in DOMAIN threads :
     LET th == threads[t]
     IN  /\ th.pc \in {"run", "done"} =>
               /\ th.second.err = th.first.err
               /\ th.second.evaluator.Field = th.first.evaluator.Field
               /\ th.second.evaluator.Weight = th.first.evaluator.Weight
               /\ th.first.err = NoError =>
                     \A u \in DOMAIN threads :
                        EvalFnc(th.second.evaluator, ThreadContext(u, th.field))
                          = EvalFnc(th.first.evaluator, ThreadContext(u, th.field))
         /\ (th.pc = "done" /\ th.first.err = NoError) =>
               th.results[2] = th.results[1]
         /\ \A u \in DOMAIN threads :
               (/\ th.pc # "start"
                /\ threads[u].pc # "start"
                /\ threads[u].field = th.field
                /\ threads[u].regID = th.regID) =>
                  threads[u].first = th.first

C15_Witness ==
  /\ threads # <<>>
  /\ \A t \in Threads : threads[t].pc = "done"
  /\ threads[1].field = "process.ancestors.uid"
  /\ threads[1].regID = MaxRegID
  /\ threads[2].field = "process.ancestors.uid"
  /\ threads[2].regID = MaxRegID
  /\ threads[1].first = threads[2].first
  /\ threads[1].results[1] # threads[2].results[1]
  /\ threads[1].results[2] = threads[1].results[1]

(* what thread t is given when it runs alone: a function of its own
   arguments, its own Event and its own context *)
Alone(t, field, regID) ==
  LET ev == GetEvaluator(field, regID)
  IN  [first |-> ev,
       iterator |-> GetIterator(IteratorArgument(field)),
       types |-> GetEventTypes,
       second |-> ev,
       results |-> IF ev.err # NoError THEN <<>>
                   ELSE <<EvalFnc(ev.evaluator, ThreadContext(t, field)),
                          EvalFnc(ev.evaluator, ThreadContext(t, field))>>]

(* C20: the Model is read-only: in every interleaving of the threads' calls
   of GetEvaluator, GetIterator and GetEventTypes and of their runs of the
   Evaluators on their own Events and contexts, each thread is given what
   it is given when it runs alone. *)
C20_ThreadsGetWhatTheyGetAlone ==
  \A t \in DOMAIN threads :
     LET th == threads[t]
         alone == Alone(t, th.field, th.regID)
     IN  /\ th.pc \notin {"start"} => th.first = alone.first
         /\ th.pc \notin {"start", "iterator"} => th.iterator = alone.iterator
         /\ th.pc \notin {"start", "iterator", "types"} => th.types = alone.types
         /\ th.pc \in {"run", "done"} => th.second = alone.second
         /\ th.pc = "done" => th.results = alone.results

C20_Witness ==
  /\ threads # <<>>
  /\ threads[1].pc = "done"
  /\ threads[2].pc = "types"
  /\ threads[1].field = "process.ancestors.uid"
  /\ threads[2].field = "process.ancestors.uid"
  /\ threads[1].iterator.iterator = "ProcessAncestorsIterator"
  /\ threads[2].iterator.iterator = "ProcessAncestorsIterator"
  /\ threads[1].results # <<>>

(* the iterator-scoped paths, by their name: exec.args, exec.envs and
   process.ancestors.* *)
IteratorScoped ==
  {f \in FieldSet :
     \/ f \in {"exec.args", "exec.envs"}
     \/ /\ Len(Components(f)) >= 3
        /\ Components(f)[1] = "process"
        /\ Components(f)[2] = "ancestors"}

(* C16: the Evaluator of a path of the schema has IteratorWeight exactly
   when the path is iterator-scoped (exec.args, exec.envs or a path below
   process.ancestors), whether its result is an int or a string; these
   are the Evaluators that read a Register. *)
C16_IteratorWeightIffIteratorScoped ==
  (last.op = "GetEvaluator" /\ last.field \in FieldSet) =>
     /\ last.evaluator.Weight = "IteratorWeight" <=> last.field \in IteratorScoped
     /\ last.evaluator.reg <=> last.field \in IteratorScoped
     /\ last.evaluator.Weight \in {"FunctionWeight", "HandlerWeight", "IteratorWeight"}

C16_Witness ==
  /\ last.op = "GetEvaluator"
  /\ last.field = "process.ancestors.cap_effective"
  /\ last.evaluator.variant = "IntEvaluator"
  /\ last.evaluator.Weight = "IteratorWeight"
  /\ GetEvaluator("exec.args", 0).evaluator.variant = "StringEvaluator"
  /\ GetEvaluator("exec.args", 0).evaluator.Weight = "IteratorWeight"
  /\ GetEvaluator("process.uid", 0).evaluator.Weight # "IteratorWeight"

(* C17 as claimed: the Evaluator of a path that is not iterator-scoped has
   FunctionWeight when its result is an int or a bool (a direct read of an
   id, mode, flag, capability mask or return code) and HandlerWeight when
   it is a string (a resolved name or path). *)
C17_DirectReadsHaveFunctionWeight ==
  (last.op = "GetEvaluator" /\ last.field \in FieldSet \ IteratorScoped) =>
     /\ last.evaluator.variant \in {"IntEvaluator", "BoolEvaluator"} =>
           last.evaluator.Weight = "FunctionWeight"
     /\ last.evaluator.variant = "StringEvaluator" =>
           last.evaluator.Weight = "HandlerWeight"

(* the int fields of the process credentials of exec.* and process.* *)
ProcessIdentityInts ==
  {f \in FieldSet :
     /\ Len(Components(f)) = 2
     /\ Components(f)[1] \in {"exec", "process"}
     /\ Components(f)[2] \in {"cap_effective", "cap_permitted", "cookie", "egid", "euid",
                              "fsgid", "fsuid", "gid", "ppid", "uid"}}

(* what the code does: the weights are as C17 says but for the 20 int
   fields above, which are direct reads with HandlerWeight *)
C17_WeightsInTheCode ==
  (last.op = "GetEvaluator" /\ last.field \in FieldSet \ IteratorScoped) =>
     /\ Cardinality(ProcessIdentityInts) = 20
     /\ last.evaluator.Weight =
          IF last.evaluator.variant = "StringEvaluator"
               \/ last.field \in ProcessIdentityInts
            THEN "HandlerWeight" ELSE "FunctionWeight"
     /\ last.field \in ProcessIdentityInts =>
          /\ last.evaluator.variant = "IntEvaluator"
          /\ last.evaluator.int
          /\ last.evaluator.obj = "*Event"

(* C19: on every iterator instance, however the calls on the instances
   interleave, the j-th call (Front, then Next) yields the j-th element of
   the sequence and every call after the last element yields nil: the
   instance is NotStarted before Front, Positioned on the element it
   yielded last, and Exhausted from the first nil on, for good.  A new
   instance starts again at the first element, and each instance that is
   driven to the end has visited the whole sequence. *)
C19_ExhaustedIsTerminalAndInstancesIndependent ==
  \A i \in DOMAIN instances :
     LET inst == instances[i]
         N == IteratedLen(event, inst.iterator)
         made == Len(inst.calls)
     IN  inst.iterator # "nil" =>
           /\ \A j \in 1..made :
                 inst.calls[j] = IF j <= N THEN ElemPtr(IteratorSeq(inst.iterator), j)
                                 ELSE NilPtr
           /\ made = 0 <=> inst.it.state = "NotStarted"
           /\ (1 <= made /\ made <= N) <=> inst.it = [state |-> "Positioned", pos |-> made]
           /\ made > N <=> inst.it.state = "Exhausted"

C19_Witness ==
  /\ instances # <<>>
  /\ Len(event.Ancestor) = MaxChain
  /\ instances[1].iterator = "ProcessAncestorsIterator"
  /\ instances[1].it.state = "Exhausted"
  /\ Len(instances[1].calls) = MaxChain + 1 + MaxAfter
  /\ instances[2].iterator = "ProcessAncestorsIterator"
  /\ instances[2].it = [state |-> "Positioned", pos |-> 1]
  /\ instances[2].calls = <<ElemPtr("ancestors", 1)>>

(* C18: every GetFields call returns the same sequence of paths, in the
   same order and without a duplicate, whatever the state of the Event it
   is called on and whatever SetFieldValue and GetFieldValue calls (the
   latter driving the iterators) were made before it. *)
C18_GetFieldsIsStable ==
  \A k \in 1..Len(listed) :
     /\ listed[k].ret = listed[1].ret
     /\ Cardinality({listed[k].ret[i] : i \in DOMAIN listed[k].ret}) = Len(listed[k].ret)
     /\ Len(listed[k].ret) = Len(GetFieldValueCases)
     /\ \A i \in DOMAIN listed[k].ret : listed[k].ret[i] = GetFieldValueCases[i].case

C18_Witness ==
  /\ Len(listed) = MaxListed
  /\ listed[1].after = NoCall
  /\ listed[1].nsets = 0
  /\ listed[MaxListed].after.op = "GetFieldValue"
  /\ listed[MaxListed].after.field = "exec.args"
  /\ listed[MaxListed].nsets = MaxSets
  /\ Len(event.attrs["Exec.Args"]) = MaxSets
  /\ listed[MaxListed].ret = listed[1].ret

(* the result of a direct read of the field on the Event *)
DirectRead(e, field) ==
  LET c == GetEvaluatorCases[GetEvaluatorIndex[field]]
  IN  ReadEvent(e, c.attr, c.int)

(* the result of an iterator-scoped case on what the Register holds *)
RegisterRead(e, field, reg) ==
  LET c == GetEvaluatorCases[GetEvaluatorIndex[field]]
  IN  IF reg = NilPtr THEN ZeroResult(c.variant)
      ELSE ElementResult(e, c.obj, c.attr, c.int, reg)

(* C21: for a path that is not iterator-scoped the Evaluators of all
   register ids return the same value on the same Event, whatever the
   Registers hold, and the value they return with no Register at all; the
   iterator-scoped Evaluator bound to register id r returns what Register r
   alone determines, whatever the other Registers hold. *)
C21_RegisterIdOnlyBindsIteratorScoped ==
  pass.pc = "ran" =>
     \A r \in RegIDs :
        IF pass.field \in IteratorScoped
          THEN out[r + 1] = RegisterRead(event, pass.field, regs[r])
          ELSE /\ out[r + 1] = out[1]
               /\ out[r + 1] = DirectRead(event, pass.field)
               /\ out[r + 1] = EvalFnc(GetEvaluator(pass.field, r).evaluator,
                                       [Object |-> event, Registers |-> <<>>])

C21_Witness ==
  /\ pass.pc = "ran"
  /\ pass.field = "process.ancestors.uid"
  /\ regs[0] = ElemPtr("ancestors", 1)
  /\ regs[MaxRegID] = ElemPtr("ancestors", 2)
  /\ out[1] = IntValue(<<0, 0, 0, 0>>)
  /\ out[MaxRegID + 1] = IntValue(<<1000, 0, 0, 0>>)
  /\ EvalFnc(GetEvaluator("process.uid", 0).evaluator,
             [Object |-> event, Registers |-> regs])
       = EvalFnc(GetEvaluator("process.uid", MaxRegID).evaluator,
                 [Object |-> event, Registers |-> regs])

(* C22: the read operations leave the Event unchanged: every step that is
   not a SetFieldValue call (an accessor call, an Evaluator run, Front or
   Next of an iterator) leaves every attribute of the Event, its exec.args
   and exec.envs sequences and its Ancestor chain as they were; reading a
   path below process.ancestors on an empty chain allocates no
   placeholder. *)
C22_ReadsLeaveEventUnchanged ==
  [][nsets' = nsets => event' = event]_vars

C22_Witness ==
  /\ last.op = "GetFieldValue"
  /\ last.field = "process.ancestors.uid"
  /\ last.value = IntsValue(<<>>)
  /\ last.err = NoError
  /\ nsets = 0
  /\ event.Ancestor = <<>>
  /\ event = NewEvent

(* the attribute of the Event a SetFieldValue case stores into, as a
   selector path from the Event *)
TargetOf(field) ==
  LET c == SetFieldValueCases[SetFieldValueIndex[field]]
  IN  IF c.alloc THEN "ProcessContext.Ancestor." \o c.attr ELSE c.attr

(* C23: for every field of the schema SetFieldValue returns
   ErrValueTypeMismatch exactly when the dynamic type of the value (int,
   string, bool or another) is not the kind GetFieldType reports, and nil
   otherwise; the Field of the error is the attribute of the Event the case
   stores into, and no other field has the same. *)
C23_MismatchIffKindDiffers ==
  (last.op = "SetFieldValue" /\ last.field \in FieldSet) =>
     /\ last.err = IF WellTyped(last.field, last.value) THEN NoError
                   ELSE ErrValueTypeMismatch(TargetOf(last.field))
     /\ \A f \in FieldSet \ {last.field} : TargetOf(f) # TargetOf(last.field)

C23_Witness ==
  /\ last.op = "SetFieldValue"
  /\ last.field = "chmod.file.mode"
  /\ last.value = OtherValue
  /\ last.err = ErrValueTypeMismatch("Chmod.File.FileFields.Mode")
  /\ TargetOf("process.ancestors.uid") # TargetOf("process.uid")

(* C26: the five switches have the same cases, the paths of GetFields():
   each of GetEvaluator, GetFieldValue, GetFieldEventType, GetFieldType and
   SetFieldValue returns ErrFieldNotFound for exactly the strings that are
   not listed by GetFields(); of the prefixes GetIterator accepts,
   "process.ancestors" is a path of none of them, "exec.args" and
   "exec.envs" are paths of all. *)
C26_SwitchesHaveTheSameCases ==
  /\ last.op \in FieldOps =>
        (last.err.kind = "ErrFieldNotFound" <=> last.field \notin FieldSet)
  /\ last.op = "GetEvaluator" => (last.err = NoError <=> last.field \in FieldSet)
  /\ last.op \in {"GetFieldValue", "GetFieldEventType", "GetFieldType"} =>
        (last.err = NoError <=> last.field \in FieldSet)
  /\ (last.op = "GetIterator" /\ last.err = NoError) =>
        /\ last.field \in FieldSet <=> last.field \in {"exec.args", "exec.envs"}
        /\ last.field = "process.ancestors" =>
              /\ GetEvaluator(last.field, 0).err = ErrFieldNotFound(last.field)
              /\ GetFieldValue(event, last.field).err = ErrFieldNotFound(last.field)
              /\ GetFieldEventType(last.field).err = ErrFieldNotFound(last.field)
              /\ GetFieldType(last.field).err = ErrFieldNotFound(last.field)
              /\ SetFieldValue(event, last.field, IntValue(SmallInt)).err
                   = ErrFieldNotFound(last.field)
  /\ last.op = "GetFields" =>
        /\ DOMAIN GetEvaluatorIndex = FieldSet
        /\ DOMAIN GetFieldValueIndex = FieldSet
        /\ DOMAIN GetFieldEventTypeIndex = FieldSet
        /\ DOMAIN GetFieldTypeIndex = FieldSet
        /\ DOMAIN SetFieldValueIndex = FieldSet

C26_Witness ==
  /\ last.op = "GetIterator"
  /\ last.field = "process.ancestors"
  /\ last.err = NoError
  /\ last.iterator = "ProcessAncestorsIterator"
  /\ last.field \notin FieldSet
  /\ GetIterator("exec.envs").err = NoError
  /\ GetFieldType("exec.envs").err = NoError

(* C27: for every field that is not iterator-scoped, the Evaluator of
   GetEvaluator(field, regID) run with the Event as the context object
   returns what GetFieldValue(field) returns on that Event: on a new and on
   a captured Event, and after every SetFieldValue call for all such fields
   and register ids. *)
C27_EvaluatorIsGetFieldValue ==
  /\ (last.op = "EvalFnc" /\ last.field \in ScalarFields) =>
        /\ GetFieldValue(event, last.field).err = NoError
        /\ last.result = GetFieldValue(event, last.field).value
  /\ last.op = "SetFieldValue" =>
        \A f \in ScalarFields, r \in RegIDs :
           EvalFnc(GetEvaluator(f, r).evaluator, [Object |-> event, Registers |-> regs])
             = GetFieldValue(event, f).value

C27_Witness ==
  /\ last.op = "EvalFnc"
  /\ last.field = "chmod.file.mode"
  /\ last.regID = MaxRegID
  /\ nsets = MaxSets
  /\ Len(hist) = MaxSets
  /\ last.result = IntValue(SmallInt)
  /\ origin.captured
  /\ GetFieldValue(InitialEvent(origin), last.field) # GetFieldValue(event, last.field)

(* what GetFieldValue returns for an ancestor field when the chain is the
   one placeholder node *)
PlaceholderValue(field) ==
  LET c == GetFieldValueCases[GetFieldValueIndex[field]]
      zero == ReadEntry(NewProcessCacheEntry, c.attr, c.int)
  IN  IF c.int THEN IntsValue(<<zero.v>>) ELSE StringsValue(<<zero.v>>)

(* C28 as claimed: a successful SetFieldValue on any field of the schema
   leaves what GetFieldValue returns for every other field unchanged, the
   other fields below process.ancestors included when the Ancestor chain was
   empty before the call. *)
C28_SetLeavesOtherFieldsUnchanged ==
  (last.op = "SetFieldValue" /\ last.field \in FieldSet /\ last.err = NoError) =>
     \A q \in FieldSet \ {last.field} :
        GetFieldValue(event, q) = GetFieldValue(prev, q)

(* C28 amended: a successful SetFieldValue leaves what GetFieldValue returns
   for every other field unchanged, except that a set on a field below
   process.ancestors on an empty Ancestor chain allocates the placeholder
   node, so that every other field below process.ancestors changes from the
   empty sequence to the one-element sequence of the zero value. *)
C28_SetLeavesOtherFieldsUnchangedButPlaceholder ==
  (last.op = "SetFieldValue" /\ last.field \in FieldSet /\ last.err = NoError) =>
     \A q \in FieldSet \ {last.field} :
        IF last.field \in AncestorFields /\ q \in AncestorFields /\ prev.Ancestor = <<>>
          THEN /\ Len(GetFieldValue(prev, q).value.v) = 0
               /\ GetFieldValue(event, q).value = PlaceholderValue(q)
          ELSE GetFieldValue(event, q) = GetFieldValue(prev, q)

C28_Witness ==
  /\ last.op = "SetFieldValue"
  /\ last.field = "process.ancestors.uid"
  /\ last.err = NoError
  /\ prev.Ancestor = <<>>
  /\ GetFieldValue(prev, "process.ancestors.gid").value = IntsValue(<<>>)
  /\ GetFieldValue(event, "process.ancestors.gid").value = IntsValue(<<<<0, 0, 0, 0>>>>)
  /\ GetFieldValue(event, "process.uid") = GetFieldValue(prev, "process.uid")

(* the fields whose SetFieldValue case converts to an unsigned type *)
UnsignedFields ==
  {f \in ScalarFields \cup AncestorFields :
     SetFieldValueCases[SetFieldValueIndex[f]].conv \in {"uint16", "uint32", "uint64"}}

(* the int v is negative: the sign bit of its highest limb *)
Negative(v) == v[4] >= SignBit

(* v modulo 2^16, 2^32, 2^64 as a number of 0 .. 2^w - 1, in limbs *)
Reduced(conv, v) ==
  CASE conv = "uint16" -> <<v[1], 0, 0, 0>>
    [] conv = "uint32" -> <<v[1], v[2], 0, 0>>
    [] conv = "uint64" -> v

(* 0 <= v < 2^w for the width w of the unsigned type *)
InUnsignedRange(conv, v) == ~Negative(v) /\ Reduced(conv, v) = v

(* what GetFieldValue returns of the attribute a SetFieldValue case stored:
   the value of the field, for an ancestor field that of the nearest ancestor *)
ReadBack(e, field) ==
  IF field \in AncestorFields THEN GetFieldValue(e, field).value.v[1]
  ELSE GetFieldValue(e, field).value.v

(* C29 as claimed: SetFieldValue of an int v on a field with an unsigned
   attribute of width w (16, 32 or 64 bits) is not rejected, and
   GetFieldValue then returns v reduced modulo 2^w, a number of
   0 .. 2^w - 1, which is v exactly when 0 <= v < 2^w. *)
C29_ReadsBackValueModuloWidth ==
  (last.op = "SetFieldValue" /\ last.field \in UnsignedFields /\ last.value.t = "int") =>
     LET conv == SetFieldValueCases[SetFieldValueIndex[last.field]].conv
         r == ReadBack(event, last.field)
     IN  /\ last.err = NoError
         /\ ~Negative(r)
         /\ r = Reduced(conv, last.value.v)
         /\ r = last.value.v <=> InUnsignedRange(conv, last.value.v)

(* C29 amended: for the 16-bit and 32-bit unsigned attributes GetFieldValue
   returns v reduced modulo 2^w, which is v exactly when 0 <= v < 2^w; for
   the 64-bit unsigned attributes GetFieldValue returns v itself for every
   int v, a negative one included.  No int is rejected. *)
C29_ReadsBackModuloWidthOrSameInt ==
  (last.op = "SetFieldValue" /\ last.field \in UnsignedFields /\ last.value.t = "int") =>
     LET conv == SetFieldValueCases[SetFieldValueIndex[last.field]].conv
         r == ReadBack(event, last.field)
     IN  /\ last.err = NoError
         /\ conv \in {"uint16", "uint32"} =>
               /\ ~Negative(r)
               /\ r = Reduced(conv, last.value.v)
               /\ r = last.value.v <=> InUnsignedRange(conv, last.value.v)
         /\ conv = "uint64" => r = last.value.v

C29_Witness ==
  /\ last.op = "SetFieldValue"
  /\ last.field = "capset.cap_effective"
  /\ last.value = IntValue(MinusOne)
  /\ last.err = NoError
  /\ GetFieldValue(event, last.field).value = IntValue(MinusOne)
  /\ Negative(MinusOne)
  /\ GetFieldValue(SetFieldValue(event, "chmod.file.mode", IntValue(BigInt)).event,
                   "chmod.file.mode").value = IntValue(SmallInt)

(* the value as GetFieldValue reads it back from the attribute a case stored
   it into: an int converted to the attribute's type and back to int *)
StoredAs(field, value) ==
  LET c == SetFieldValueCases[SetFieldValueIndex[field]]
  IN  IF c.conv # "" THEN ToInt(c.conv, ConvertInt(c.conv, value.v)) ELSE value.v

(* a successful SetFieldValue on an ancestor field wrote attribute X of the
   nearest ancestor only, and GetFieldValue returns x for it: the chain has
   one node if it was empty and its length otherwise, the other attributes
   of the nearest ancestor and the other ancestors are as before *)
WroteNearestAncestor(x) ==
  LET c == SetFieldValueCases[SetFieldValueIndex[last.field]]
      g == GetFieldValue(event, last.field).value.v
      gp == GetFieldValue(prev, last.field).value.v
      before == IF prev.Ancestor = <<>> THEN NewProcessCacheEntry ELSE prev.Ancestor[1]
  IN  /\ Len(event.Ancestor) = IF prev.Ancestor = <<>> THEN 1 ELSE Len(prev.Ancestor)
      /\ Len(g) = Len(event.Ancestor)
      /\ g[1] = x
      /\ \A i \in 2..Len(g) : g[i] = gp[i] /\ event.Ancestor[i] = prev.Ancestor[i]
      /\ \A a \in DOMAIN before : a # c.attr => event.Ancestor[1][a] = before[a]
      /\ event.attrs = prev.attrs

(* C30 as claimed: after a successful SetFieldValue(process.ancestors.X, v)
   GetFieldValue of the path returns [v] on a chain that was empty, and on a
   chain of N >= 1 ancestors a sequence of length N whose first element is v
   and whose elements 2..N are unchanged. *)
C30_WritesValueIntoNearestAncestor ==
  (last.op = "SetFieldValue" /\ last.field \in AncestorFields /\ last.err = NoError) =>
     WroteNearestAncestor(last.value.v)

(* C30 amended: as claimed, with the first element being v converted to the
   fixed-width type of attribute X (v itself for a string and for an int in
   the range of the type). *)
C30_WritesConvertedValueIntoNearestAncestor ==
  (last.op = "SetFieldValue" /\ last.field \in AncestorFields /\ last.err = NoError) =>
     /\ WroteNearestAncestor(StoredAs(last.field, last.value))
     /\ Fits(last.field, last.value) => StoredAs(last.field, last.value) = last.value.v

C30_Witness ==
  /\ last.op = "SetFieldValue"
  /\ last.field = "process.ancestors.uid"
  /\ last.err = NoError
  /\ nsets = MaxSets
  /\ Len(hist) = MaxSets
  /\ hist[1] = IntValue(BigInt)
  /\ last.value = IntValue(SmallInt)
  /\ Len(prev.Ancestor) = MaxChain
  /\ Len(event.Ancestor) = MaxChain
  /\ GetFieldValue(event, last.field).value.v[1] = SmallInt
  /\ GetFieldValue(event, last.field).value.v[MaxChain]
       = GetFieldValue(InitialEvent(origin), last.field).value.v[MaxChain]

=============================================================================
